---- MODULE Spec2Model ----
(***************************************************************************)
(* Model of the live in-flight tracker of balloon_operator:                *)
(* trajectory_predictor.liveForecast (the poll loop), doOneLivePrediction  *)
(* (one forecast cycle), detectDescent, lastVerticalVelocity and           *)
(* checkGeofence, with the message helpers of message.Message.             *)
(*                                                                         *)
(* Positions lie on the equator: a longitude is a whole number of degrees  *)
(* and the great-circle distance of two positions is KmPerDegree km per    *)
(* degree of longitude.  Altitudes are metres, timestamps whole seconds.   *)
(* The legs computed by the wind integrator are kept as the arguments of   *)
(* the call that computes them.                                            *)
(***************************************************************************)
EXTENDS Integers, Sequences, FiniteSets, TLC

\* ------------------------------------------------------------------ bounds
MaxTrack == 4            \* most points kept in the tracked segment
MaxBatch == 2            \* most messages returned by one poll

\* ------------------------------------------------- input domains of a fix
NearLons == {0}          \* degrees east of the launch site
FarLons == {2}
Alts == {0, 100, 200}    \* metres
FarAlts == {200}
Times == {1, 2}          \* seconds
LaunchAlts == {0, 100, 200}     \* launch_altitude values tried on detectDescent
GeofenceRadii == {150}   \* settings['geofence']['radius'] in km
TopHeights == {150}      \* top_height given to liveForecast, in m

launch_lon == 0
launch_lat == 0
KmPerDegree == 111

\* Python's None, as a track point / waypoint / message and as an index.
None == [name |-> "None"]
NoIndex == -1

\* -------------------------------------------------------------- messages
Keys == {"LON", "LAT", "ALT", "DATETIME"}

\* complete fixes: any altitude and time near the launch site, and fixes
\* far from it
FullMessages ==
    { [LON |-> lon, LAT |-> launch_lat, ALT |-> alt, DATETIME |-> t] :
          lon \in NearLons, alt \in Alts, t \in Times }
    \cup
    { [LON |-> lon, LAT |-> launch_lat, ALT |-> alt, DATETIME |-> t] :
          lon \in FarLons, alt \in FarAlts, t \in Times }

Without(msg, key) == [k \in (DOMAIN msg) \ {key} |-> msg[k]]

\* Decoded records that lack one of the fields (the tracker sends only the
\* fields it is configured to send, message_sbd.decodeMessage).
PartialMessages ==
    { Without([LON |-> 0, LAT |-> launch_lat, ALT |-> 200, DATETIME |-> 2], key) :
          key \in Keys }

Messages == FullMessages \cup PartialMessages

Batches == UNION { [1..n -> Messages] : n \in 0..MaxBatch }

\* polls of at most one message: a fix low and one high above the launch
\* site, a fix far from it, a record without longitude
FewMessages ==
    { [LON |-> 0, LAT |-> launch_lat, ALT |-> 0, DATETIME |-> 1],
      [LON |-> 0, LAT |-> launch_lat, ALT |-> 200, DATETIME |-> 2],
      [LON |-> 2, LAT |-> launch_lat, ALT |-> 200, DATETIME |-> 2],
      [LAT |-> launch_lat, ALT |-> 200, DATETIME |-> 2] }

FewBatches == { << >> } \cup { << msg >> : msg \in FewMessages }

Abs(x) == IF x < 0 THEN -x ELSE x

\* geog.distance / 1000. for two positions on the equator, in km
distance(lon1, lat1, lon2, lat2) == KmPerDegree * Abs(lon1 - lon2)

\* checkGeofence testing the radius the wrong way round
checkGeofence_Unset(cur_lon, cur_lat, l_lon, l_lat, radius) ==
    IF radius = 0
    THEN LET d == distance(l_lon, l_lat, cur_lon, cur_lat)
         IN  IF d > radius THEN FALSE ELSE TRUE
    ELSE TRUE

\* checkGeofence with the border of the fence outside
checkGeofence_Strict(cur_lon, cur_lat, l_lon, l_lat, radius) ==
    IF radius # 0
    THEN LET d == distance(l_lon, l_lat, cur_lon, cur_lat)
         IN  IF d >= radius THEN FALSE ELSE TRUE
    ELSE TRUE

checkGeofence(cur_lon, cur_lat, l_lon, l_lat, radius) ==
    IF radius # 0
    THEN LET d == distance(l_lon, l_lat, cur_lon, cur_lat)
         IN  IF d > radius THEN FALSE ELSE TRUE
    ELSE TRUE

message2trackpoint(msg) ==
    [latitude |-> msg.LAT, longitude |-> msg.LON,
     elevation |-> msg.ALT, time |-> msg.DATETIME]

message2waypoint(msg, name) ==
    [latitude |-> msg.LAT, longitude |-> msg.LON,
     elevation |-> msg.ALT, time |-> msg.DATETIME, name |-> name]

GPXWaypoint(pkt, name) ==
    [latitude |-> pkt.latitude, longitude |-> pkt.longitude,
     elevation |-> pkt.elevation, time |-> pkt.time, name |-> name]

\* Message.sortMessages: the orders np.argsort may return (it is not a
\* stable sort, so messages of equal time come in either order).  The
\* result is the set of sorted lists; a message without DATETIME raises.
sortRaises(messages) == \E i \in 1..Len(messages) : "DATETIME" \notin DOMAIN messages[i]

sortMessages(messages) ==
    LET n == Len(messages)
        idx == { p \in Permutations(1..n) :
                   \A i, j \in 1..n :
                       i < j => messages[p[i]].DATETIME <= messages[p[j]].DATETIME }
    IN  { [i \in 1..n |-> messages[p[i]]] : p \in idx }

\* ------------------------------------------------------- descent detection
\* np.argmax over the elevations: the first (0-based) index of the maximum
argmax(points) ==
    CHOOSE i \in 0..(Len(points) - 1) :
        /\ \A j \in 0..(Len(points) - 1) : points[j + 1].elevation <= points[i + 1].elevation
        /\ \A j \in 0..(i - 1) : points[j + 1].elevation < points[i + 1].elevation

\* detectDescent with the wrong comparison against the launch altitude
detectDescent_AtLeast(points, launch_altitude) ==
    IF Len(points) >= 3
    THEN LET n == Len(points)
             ind_max_height == argmax(points)
             max_height == points[ind_max_height + 1].elevation
         IN  IF points[n - 1].elevation - points[n - 2].elevation <= 0
                /\ points[n].elevation - points[n - 1].elevation <= 0
                /\ max_height >= launch_altitude + 100
             THEN ind_max_height
             ELSE NoIndex
    ELSE NoIndex

\* detectDescent looking at the last difference only
detectDescent_LastDiffOnly(points, launch_altitude) ==
    IF Len(points) >= 3
    THEN LET n == Len(points)
             ind_max_height == argmax(points)
             max_height == points[ind_max_height + 1].elevation
         IN  IF points[n].elevation - points[n - 1].elevation <= 0
                /\ max_height > launch_altitude + 100
             THEN ind_max_height
             ELSE NoIndex
    ELSE NoIndex

detectDescent(points, launch_altitude) ==
    IF Len(points) >= 3
    THEN LET n == Len(points)
             last_heights == [i \in 1..3 |-> points[n - 3 + i].elevation]
             vertical_velocites == [i \in 1..2 |-> last_heights[i + 1] - last_heights[i]]
             ind_max_height == argmax(points)
             max_height == points[ind_max_height + 1].elevation
         IN  IF (\A i \in 1..2 : vertical_velocites[i] <= 0)
                /\ max_height > launch_altitude + 100
             THEN ind_max_height
             ELSE NoIndex
    ELSE NoIndex

\* ------------------------------------------------------- vertical velocity
\* A velocity is a number of m/s or NaN.
Velocity(v) == [nan |-> FALSE, value |-> v]
NaN == [nan |-> TRUE, value |-> 0]

\* Python's true division, for the exact quotients that occur here
Quotient(a, b) ==
    IF b > 0 THEN (IF a >= 0 THEN a \div b ELSE -((-a) \div b))
    ELSE (IF a >= 0 THEN -(a \div (-b)) ELSE (-a) \div (-b))

\* float / 0.0 raises ZeroDivisionError
lastVerticalVelocityRaises(points) ==
    /\ Len(points) >= 2
    /\ points[Len(points)].time = points[Len(points) - 1].time

lastVerticalVelocity(points) ==
    IF Len(points) < 2
    THEN NaN
    ELSE LET n == Len(points)
         IN  Velocity(Quotient(points[n].elevation - points[n - 1].elevation,
                               points[n].time - points[n - 1].time))

\* ------------------------------------------------------------ forecast legs
\* predictDescent started at (time, lon, lat, alt) with an initial velocity:
\* the leg is kept as its start; its last point is the landing point.
predictDescent(top_datetime, top_lon, top_lat, top_alt, initial_velocity) ==
    [leg |-> "descent", time |-> top_datetime, longitude |-> top_lon,
     latitude |-> top_lat, elevation |-> top_alt,
     initial_velocity |-> initial_velocity]

\* predictAscent from (time, lon, lat, alt) to the ceiling top
predictAscent(launch_datetime, lon, lat, alt, top) ==
    [leg |-> "ascent", time |-> launch_datetime, longitude |-> lon,
     latitude |-> lat, elevation |-> alt, top |-> top]

\* the waypoint put at the last point of a predicted leg
EndOf(segment, name) == [name |-> name, endOf |-> segment]

\* the descent that starts where, and when, an ascent leg ends
DescentAfter(segment_ascent, top_alt, initial_velocity) ==
    [leg |-> "descent", startsAtEndOf |-> segment_ascent, elevation |-> top_alt,
     initial_velocity |-> initial_velocity]

Tracked(points) == [leg |-> "tracked", points |-> points]

Last(seq) == seq[Len(seq)]

Max(a, b) == IF a >= b THEN a ELSE b

\* ------------------------------------------------ one live forecast cycle
\* a launch point made from the latest tracked point
launchPointOf_Latest(points, launch_point0) ==
    IF launch_point0 = None
    THEN GPXWaypoint(Last(points), "Launch")
    ELSE launch_point0

\* the launch point: kept if set, else made from the first tracked point
launchPointOf(points, launch_point0) ==
    IF launch_point0 = None
    THEN GPXWaypoint(points[1], "Launch")
    ELSE launch_point0

\* a top point looked for anew in every cycle, whatever was set before
topPointDetected_Anew(points, launch_point1, top_point0) ==
    LET ind_top == detectDescent(points, launch_point1.elevation)
    IN  IF ind_top # NoIndex
        THEN GPXWaypoint(points[ind_top + 1], "Ceiling")
        ELSE None

\* while no top point is set, look for the descent; the top point is then
\* the highest tracked point
topPointDetected(points, launch_point1, top_point0) ==
    IF top_point0 = None
    THEN LET ind_top == detectDescent(points, launch_point1.elevation)
         IN  IF ind_top # NoIndex
             THEN GPXWaypoint(points[ind_top + 1], "Ceiling")
             ELSE None
    ELSE top_point0

\* the ceiling rule comparing with the configured ceiling only
topPointCeiling_CeilingOnly(points, msg, top_point1, top_altitude) ==
    IF Last(points).elevation > top_altitude
    THEN message2waypoint(msg, "Ceiling")
    ELSE top_point1

\* above the configured ceiling (and above the top point, if there is one)
\* the current fix becomes the top point
topPointCeiling(points, msg, top_point1, top_altitude) ==
    IF Last(points).elevation >
           Max(top_altitude, IF top_point1 # None THEN top_point1.elevation ELSE 0)
    THEN message2waypoint(msg, "Ceiling")
    ELSE top_point1

initialDescentVelocity(ascending, points) ==
    IF ascending THEN Velocity(0) ELSE lastVerticalVelocity(points)

\* the waypoints with the current fix before the ceiling on descent too
liveWaypoints_CurrentFirst(ascending, launch_point1, top_point2, msg, segment_ascent, segment_descent, top_altitude) ==
    IF ascending
    THEN << launch_point1, message2waypoint(msg, "Current"),
            [name |-> "Ceiling", endOf |-> segment_ascent, elevation |-> top_altitude],
            EndOf(segment_descent, "Landing") >>
    ELSE << launch_point1, message2waypoint(msg, "Current"), top_point2,
            EndOf(segment_descent, "Landing") >>

\* the waypoints written with the track
liveWaypoints(ascending, launch_point1, top_point2, msg, segment_ascent, segment_descent, top_altitude) ==
    IF ascending
    THEN << launch_point1, message2waypoint(msg, "Current"),
            [name |-> "Ceiling", endOf |-> segment_ascent, elevation |-> top_altitude],
            EndOf(segment_descent, "Landing") >>
    ELSE << launch_point1, top_point2, message2waypoint(msg, "Current"),
            EndOf(segment_descent, "Landing") >>

\* the track written: tracked segment, then the predicted legs
liveTrack(ascending, points, segment_ascent, segment_descent) ==
    IF ascending
    THEN << Tracked(points), segment_ascent, segment_descent >>
    ELSE << Tracked(points), segment_descent >>

\* the 'cut now' track and its waypoints (track_cut is None on descent)
liveTrackCut(ascending, points, segment_cut) ==
    IF ascending THEN << Tracked(points), segment_cut >> ELSE << >>

liveWaypointsCut(ascending, launch_point1, msg, segment_cut) ==
    IF ascending
    THEN << launch_point1, message2waypoint(msg, "Current"),
            EndOf(segment_cut, "Landing (cut)") >>
    ELSE << >>

\* doOneLivePrediction(segment_tracked, msg, ..., launch_point, top_point,
\* ..., top_altitude, ...).  io_fails: a collaborator called by the cycle
\* (wind integration, descent simulation, file output, upload) raises.
\* The result says whether the call raised and, if it returned, what it
\* returned and what it wrote.
doOneLivePrediction(points, msg, launch_point0, top_point0, top_altitude, io_fails) ==
    LET launch_point1 == launchPointOf(points, launch_point0)
        top_point1 == topPointDetected(points, launch_point1, top_point0)
        top_point2 == topPointCeiling(points, msg, top_point1, top_altitude)
        cur == Last(points)
        ascending == (top_point2 = None)
        segment_cut == predictDescent(cur.time, cur.longitude, cur.latitude,
                                      cur.elevation, Velocity(0))
        segment_ascent == predictAscent(cur.time, cur.longitude, cur.latitude,
                                        cur.elevation, top_altitude)
        raises == io_fails \/ (~ascending /\ lastVerticalVelocityRaises(points))
        initial_descent_velocity == initialDescentVelocity(ascending, points)
        segment_descent ==
            IF ascending
            THEN DescentAfter(segment_ascent, top_altitude, initial_descent_velocity)
            ELSE predictDescent(cur.time, cur.longitude, cur.latitude,
                                cur.elevation, initial_descent_velocity)
    IN  IF raises
        THEN [raised |-> TRUE]
        ELSE [raised |-> FALSE,
              launch_point |-> launch_point1,
              top_point |-> top_point2,
              track |-> liveTrack(ascending, points, segment_ascent, segment_descent),
              waypoints |-> liveWaypoints(ascending, launch_point1, top_point2, msg,
                                          segment_ascent, segment_descent, top_altitude),
              track_cut |-> liveTrackCut(ascending, points, segment_cut),
              waypoints_cut |-> liveWaypointsCut(ascending, launch_point1, msg, segment_cut),
              initial_descent_velocity |-> initial_descent_velocity]

\* ------------------------------------------------------------ the live loop
VARIABLES
    pc,               \* where liveForecast is: "poll", "process", "sleep", "stopped"
    geofence_radius,  \* settings['geofence']['radius']
    top_height,       \* the configured ceiling
    segment_tracked,  \* points of the tracked segment
    launch_point,     \* None or the launch waypoint
    top_point,        \* None (ascending) or the ceiling waypoint (descending)
    messages,         \* what getDecodedMessages returned in this iteration
    cycle             \* what the try block of this iteration did

vars == << pc, geofence_radius, top_height, segment_tracked, launch_point,
           top_point, messages, cycle >>

\* the live loop is not running
LiveOff ==
    /\ pc = "off"
    /\ geofence_radius = 0
    /\ top_height = 0
    /\ segment_tracked = << >>
    /\ launch_point = None
    /\ top_point = None
    /\ messages = << >>
    /\ cycle = None

\* ------------------------------------------- state of the other programs
\* Each program below runs on its own; while one runs, the variables of the
\* others keep the values given here.
VARIABLES
    tpc,          \* where predictTrajectory is: "off", "loop", "returned", "raised"
    dt,           \* datetime vector (seconds, rationals)
    altitude,     \* altitude vector
    model_data,   \* the wind field: u and v wind, extent of its grid
    srtm,         \* ground elevation of each terrain tile, or None
    x,            \* current position
    y,
    ind,          \* loop index of predictTrajectory (from 0)
    gpx_segment,  \* points of the segment being built
    surface_elevation,    \* what srtm.get_elevation returned last
    has_landed

trajVars == << tpc, dt, altitude, model_data, srtm, x, y, ind, gpx_segment,
               surface_elevation, has_landed >>

TrajOff ==
    /\ tpc = "off"
    /\ dt = << >>
    /\ altitude = << >>
    /\ model_data = None
    /\ srtm = << >>
    /\ x = None
    /\ y = None
    /\ ind = 0
    /\ gpx_segment = << >>
    /\ surface_elevation = None
    /\ has_landed = FALSE

VARIABLES
    timer,            \* the GUI's QTimer: "active" or "stopped"
    threadpool,       \* the GUI's workers: where each is in doLiveForecast
    maxThreadCount    \* threads of the QThreadPool

guiVars == << timer, threadpool, maxThreadCount >>

GuiOff ==
    /\ timer = "stopped"
    /\ threadpool = << >>
    /\ maxThreadCount = 0

VARIABLES
    spc,                 \* where hourlyForecast is: "off", "loop", "after", "returned", "raised"
    forecast_length,
    filelists,           \* launch times for which getModelData finds model data
    launch_datetime,     \* in hours
    i_hour,              \* loop variable, NoIndex while unbound
    hourly_segment,
    individual_tracks,
    hourly_track

sweepVars == << spc, forecast_length, filelists, launch_datetime, i_hour,
                hourly_segment, individual_tracks, hourly_track >>

SweepOff ==
    /\ spc = "off"
    /\ forecast_length = 0
    /\ filelists = {}
    /\ launch_datetime = 0
    /\ i_hour = NoIndex
    /\ hourly_segment = << >>
    /\ individual_tracks = << >>
    /\ hourly_track = None

VARIABLES
    mpc,                     \* where main is: "off", "performance", "predict", "done", "raised"
    two_balloon,             \* descent_velocity is not None
    cut_altitude,            \* NoIndex when not given
    ascent_burst_height,
    descent_burst_height,    \* NoIndex in a flight with one balloon
    main_top_height,         \* top_height of main, NoIndex while unset
    model_data_fetched       \* the prediction has asked for model data

mainVars == << mpc, two_balloon, cut_altitude, ascent_burst_height,
               descent_burst_height, main_top_height, model_data_fetched >>

MainOff ==
    /\ mpc = "off"
    /\ two_balloon = FALSE
    /\ cut_altitude = NoIndex
    /\ ascent_burst_height = 0
    /\ descent_burst_height = NoIndex
    /\ main_top_height = NoIndex
    /\ model_data_fetched = FALSE

VARIABLES
    fpc,                  \* where balloonFilling is: "off", "loop", "after", "returned", "raised"
    balloon_parameters,   \* the balloon and its payload
    target_velocity,      \* the parameter ascent_velocity
    r_min,
    r_max,
    launch_radius,
    i_loop,               \* loop variable, NoIndex while unbound
    this_performance,     \* what balloonPerformance returned last
    filling               \* what balloonFilling returned

fillVars == << fpc, balloon_parameters, target_velocity, r_min, r_max, launch_radius, i_loop,
               this_performance, filling >>

FillOff ==
    /\ fpc = "off"
    /\ balloon_parameters = None
    /\ target_velocity = 0
    /\ r_min = None
    /\ r_max = None
    /\ launch_radius = None
    /\ i_loop = NoIndex
    /\ this_performance = None
    /\ filling = None

VARIABLES
    cpc,                  \* where parachuteDescent is: "off", "integrate", "downsample", "returned", "raised"
    chute_timestep,       \* the parameter timestep, in tenths of a second
    t,                    \* the integrator's time, altitude and velocity
    z,
    s,
    time_descent,         \* the arrays time, altitude, velocity
    alt_descent,
    velocity_descent

chuteVars == << cpc, chute_timestep, t, z, s, time_descent, alt_descent, velocity_descent >>

ChuteOff ==
    /\ cpc = "off"
    /\ chute_timestep = 0
    /\ t = 0
    /\ z = 0
    /\ s = 0
    /\ time_descent = << >>
    /\ alt_descent = << >>
    /\ velocity_descent = << >>

VARIABLES
    call,                 \* a call of a function: its name and arguments
    result                \* what the call returned or raised, None while it runs

callVars == << call, result >>

CallOff ==
    /\ call = None
    /\ result = None

VARIABLES
    flpc,                 \* where predictBalloonFlight is: "off", "start", "ascent", "descent", "returned", "raised"
    flight,               \* the arguments of the call
    track_segments,         \* track.segments
    waypoint_list,     \* waypoints
    flight_range

flightVars == << flpc, flight, track_segments, waypoint_list, flight_range >>

FlightOff ==
    /\ flpc = "off"
    /\ flight = None
    /\ track_segments = << >>
    /\ waypoint_list = << >>
    /\ flight_range = None

\* what each program leaves alone, and the state of the programs not running
notLive == << trajVars, guiVars, sweepVars, mainVars, fillVars, chuteVars, callVars, flightVars >>
notTraj == << vars, guiVars, sweepVars, mainVars, fillVars, chuteVars, callVars, flightVars >>
notGui == << trajVars, sweepVars, mainVars, fillVars, chuteVars, callVars, flightVars >>
notSweep == << vars, trajVars, guiVars, mainVars, fillVars, chuteVars, callVars, flightVars >>
notMain == << vars, trajVars, guiVars, sweepVars, fillVars, chuteVars, callVars, flightVars >>
notFill == << vars, trajVars, guiVars, sweepVars, mainVars, chuteVars, callVars, flightVars >>
notChute == << vars, trajVars, guiVars, sweepVars, mainVars, fillVars, callVars, flightVars >>
notCall == << vars, trajVars, guiVars, sweepVars, mainVars, fillVars, chuteVars, flightVars >>
notFlight == << vars, guiVars, sweepVars, mainVars, fillVars, chuteVars, callVars >>

NotLiveOff == TrajOff /\ GuiOff /\ SweepOff /\ MainOff /\ FillOff /\ ChuteOff /\ CallOff /\ FlightOff
NotTrajOff == LiveOff /\ GuiOff /\ SweepOff /\ MainOff /\ FillOff /\ ChuteOff /\ CallOff /\ FlightOff
NotGuiOff == TrajOff /\ SweepOff /\ MainOff /\ FillOff /\ ChuteOff /\ CallOff /\ FlightOff
NotSweepOff == LiveOff /\ TrajOff /\ GuiOff /\ MainOff /\ FillOff /\ ChuteOff /\ CallOff /\ FlightOff
NotMainOff == LiveOff /\ TrajOff /\ GuiOff /\ SweepOff /\ FillOff /\ ChuteOff /\ CallOff /\ FlightOff
NotFillOff == LiveOff /\ TrajOff /\ GuiOff /\ SweepOff /\ MainOff /\ ChuteOff /\ CallOff /\ FlightOff
NotChuteOff == LiveOff /\ TrajOff /\ GuiOff /\ SweepOff /\ MainOff /\ FillOff /\ CallOff /\ FlightOff
NotCallOff == LiveOff /\ TrajOff /\ GuiOff /\ SweepOff /\ MainOff /\ FillOff /\ ChuteOff /\ FlightOff
NotFlightOff == LiveOff /\ GuiOff /\ SweepOff /\ MainOff /\ FillOff /\ ChuteOff /\ CallOff

allVars == << vars, notLive >>


\* The record of one iteration: how the try block ended, the flags of the
\* (sorted) messages, the message handed to doOneLivePrediction, the
\* launch_point and top_point handed to it, and what it returned.
NoCycle(outcome) ==
    [outcome |-> outcome, is_invalid |-> << >>,
     msg |-> None, launch_point0 |-> None, top_point0 |-> None,
     prediction |-> None]

\* an except clause that lets the exception end the loop
exceptHandler_Propagate == "crashed"

\* where control goes after the except clause has logged the exception
exceptHandler == "sleep"

Init ==
    /\ pc = "poll"
    /\ geofence_radius \in GeofenceRadii
    /\ top_height \in TopHeights
    /\ segment_tracked = << >>
    /\ launch_point = None
    /\ top_point = None
    /\ messages = << >>
    /\ cycle = NoCycle("start")
    /\ NotLiveOff

\* a for loop that takes back the points it has appended when it raises
RECURSIVE forLoop_RollBack(_, _, _)
forLoop_RollBack(msgs, radius, k) ==
    IF k = 0
    THEN [points |-> << >>, is_invalid |-> [i \in 1..Len(msgs) |-> FALSE], raised |-> FALSE]
    ELSE LET prev == forLoop_RollBack(msgs, radius, k - 1)
             msg == msgs[k]
         IN  IF prev.raised THEN prev
             ELSE IF "LON" \notin DOMAIN msg \/ "LAT" \notin DOMAIN msg
                  THEN [prev EXCEPT !.raised = TRUE, !.points = << >>]
             ELSE IF ~checkGeofence(msg.LON, msg.LAT, launch_lon, launch_lat, radius)
                  THEN [prev EXCEPT !.is_invalid[k] = TRUE]
             ELSE IF "ALT" \notin DOMAIN msg \/ "DATETIME" \notin DOMAIN msg
                  THEN [prev EXCEPT !.raised = TRUE, !.points = << >>]
             ELSE [prev EXCEPT !.points = Append(@, message2trackpoint(msg))]

\* The for loop over the sorted messages, after its first k iterations:
\* the points appended, the flags set, and whether an iteration raised
\* KeyError (msg['LON'], msg['LAT'] are read before the geofence check,
\* msg['ALT'] and msg['DATETIME'] by message2trackpoint after it).
RECURSIVE forLoop(_, _, _)
forLoop(msgs, radius, k) ==
    IF k = 0
    THEN [points |-> << >>, is_invalid |-> [i \in 1..Len(msgs) |-> FALSE], raised |-> FALSE]
    ELSE LET prev == forLoop(msgs, radius, k - 1)
             msg == msgs[k]
         IN  IF prev.raised THEN prev
             ELSE IF "LON" \notin DOMAIN msg \/ "LAT" \notin DOMAIN msg
                  THEN [prev EXCEPT !.raised = TRUE]
             ELSE IF ~checkGeofence(msg.LON, msg.LAT, launch_lon, launch_lat, radius)
                  THEN [prev EXCEPT !.is_invalid[k] = TRUE]
             ELSE IF "ALT" \notin DOMAIN msg \/ "DATETIME" \notin DOMAIN msg
                  THEN [prev EXCEPT !.raised = TRUE]
             ELSE [prev EXCEPT !.points = Append(@, message2trackpoint(msg))]

\* np.array(messages)[~is_invalid][-1]
lastValid(msgs, is_invalid) ==
    msgs[CHOOSE i \in 1..Len(msgs) :
            /\ ~is_invalid[i]
            /\ \A j \in (i + 1)..Len(msgs) : is_invalid[j]]

\* messages = message_handler.getDecodedMessages(), which may raise; the
\* messages received are one of the given batches
ReceiveFrom(batches) ==
    /\ pc = "poll"
    /\ \/ /\ \E batch \in batches :
                /\ Len(segment_tracked) + Len(batch) <= MaxTrack
                /\ messages' = batch
          /\ pc' = "process"
          /\ cycle' = NoCycle("polled")
       \/ /\ messages' = << >>
          /\ pc' = exceptHandler
          /\ cycle' = NoCycle("exception")
    /\ UNCHANGED << geofence_radius, top_height, segment_tracked, launch_point, top_point >>
    /\ UNCHANGED notLive

Receive == ReceiveFrom(Batches)

\* the rest of the try block, with its except clause
Process ==
    /\ pc = "process"
    /\ IF Len(messages) = 0
       THEN /\ cycle' = NoCycle("empty")
            /\ pc' = "sleep"
            /\ UNCHANGED << segment_tracked, launch_point, top_point, messages >>
       ELSE IF sortRaises(messages)
       THEN /\ cycle' = NoCycle("exception")
            /\ pc' = exceptHandler
            /\ UNCHANGED << segment_tracked, launch_point, top_point, messages >>
       ELSE \E sorted \in sortMessages(messages) :
            LET loop == forLoop(sorted, geofence_radius, Len(sorted))
                points == segment_tracked \o loop.points
                seen == [NoCycle("exception") EXCEPT !.is_invalid = loop.is_invalid]
            IN  /\ segment_tracked' = points
                /\ messages' = sorted
                /\ IF loop.raised
                   THEN /\ cycle' = seen
                        /\ pc' = exceptHandler
                        /\ UNCHANGED << launch_point, top_point >>
                   ELSE IF \A i \in 1..Len(sorted) : loop.is_invalid[i]
                   THEN /\ cycle' = [seen EXCEPT !.outcome = "all_invalid"]
                        /\ pc' = "poll"       \* continue
                        /\ UNCHANGED << launch_point, top_point >>
                   ELSE \E io_fails \in BOOLEAN :
                        LET msg == lastValid(sorted, loop.is_invalid)
                            r == doOneLivePrediction(points, msg, launch_point,
                                                     top_point, top_height, io_fails)
                            called == [seen EXCEPT !.msg = msg,
                                          !.launch_point0 = launch_point,
                                          !.top_point0 = top_point]
                        IN  /\ IF r.raised
                               THEN /\ cycle' = called
                                    /\ pc' = exceptHandler
                                    /\ UNCHANGED << launch_point, top_point >>
                               ELSE /\ cycle' = [called EXCEPT !.outcome = "forecast",
                                                    !.prediction = r]
                                    /\ pc' = "sleep"
                                    /\ launch_point' = r.launch_point
                                    /\ top_point' = r.top_point
    /\ UNCHANGED << geofence_radius, top_height >>
    /\ UNCHANGED notLive

\* time.sleep(settings['connection']['poll_time'])
Sleep ==
    /\ pc = "sleep"
    /\ pc' = "poll"
    /\ messages' = << >>
    /\ cycle' = NoCycle("slept")
    /\ UNCHANGED << geofence_radius, top_height, segment_tracked, launch_point, top_point >>
    /\ UNCHANGED notLive

\* the process is interrupted from outside (KeyboardInterrupt is no
\* Exception): the loop ends where it is
Stop ==
    /\ pc # "stopped"
    /\ pc' = "stopped"
    /\ UNCHANGED << geofence_radius, top_height, segment_tracked, launch_point,
                    top_point, messages, cycle >>
    /\ UNCHANGED notLive

Next == Receive \/ Process \/ Sleep \/ Stop

Spec == Init /\ [][Next]_allVars

\* ================================================================ properties
Elevations(points) == { points[i].elevation : i \in 1..Len(points) }

\* the last three tracked altitudes are non-increasing
LastThreeNonIncreasing(points) ==
    /\ Len(points) >= 3
    /\ points[Len(points) - 1].elevation <= points[Len(points) - 2].elevation
    /\ points[Len(points)].elevation <= points[Len(points) - 1].elevation

\* some altitude of the set exceeds the bound
Exceeds(alts, bound) == \E a \in alts : a > bound

LastThree(points) == { points[i].elevation : i \in (Len(points) - 2)..Len(points) }

\* a step in which the tracker goes from Ascending to Descending
Transition == top_point = None /\ top_point' # None

\* C1 (as claimed): the tracker goes from Ascending to Descending in a cycle
\* only if the last three tracked altitudes are non-increasing and their
\* maximum exceeds the launch altitude + 100 m.
C1_TransitionOnlyOnThreeNonIncreasing ==
    [][Transition =>
          /\ LastThreeNonIncreasing(segment_tracked')
          /\ Exceeds(LastThree(segment_tracked'), launch_point'.elevation + 100)]_vars

\* C1 (amended): the tracker goes from Ascending to Descending in a cycle only
\* if the last three tracked altitudes are non-increasing and the maximum of
\* the whole tracked segment exceeds the launch altitude + 100 m, or the
\* latest tracked altitude exceeds the configured ceiling.
C1_TransitionOnlyOnDescentOrCeiling ==
    [][Transition =>
          \/ /\ LastThreeNonIncreasing(segment_tracked')
             /\ Exceeds(Elevations(segment_tracked'), launch_point'.elevation + 100)
          \/ Last(segment_tracked').elevation > top_height']_vars

\* a cycle that went to Descending by detecting the descent, below the ceiling
C1_Witness ==
    /\ cycle.outcome = "forecast"
    /\ cycle.top_point0 = None
    /\ top_point # None
    /\ Last(segment_tracked).elevation <= top_height

\* i (0-based) is the first index of the highest tracked point
FirstHighest(points, i) ==
    /\ i \in 0..(Len(points) - 1)
    /\ \A j \in 1..Len(points) : points[j].elevation <= points[i + 1].elevation
    /\ \A j \in 1..i : points[j].elevation # points[i + 1].elevation

\* C2: detectDescent reports a descent, and then returns the first index of
\* the highest tracked point, if and only if the segment has at least three
\* points, the last three altitudes are non-increasing and the maximum
\* altitude of the whole segment is strictly above launch_altitude + 100 m;
\* otherwise it returns None.
C2_DetectDescentIff ==
    \A launch_altitude \in LaunchAlts :
        LET ind_top == detectDescent(segment_tracked, launch_altitude)
        IN  IF /\ LastThreeNonIncreasing(segment_tracked)
               /\ Exceeds(Elevations(segment_tracked), launch_altitude + 100)
            THEN FirstHighest(segment_tracked, ind_top)
            ELSE ind_top = NoIndex

\* a tracked segment with a descent whose highest altitude occurs twice, and
\* one with three non-increasing samples whose maximum is exactly 100 m above
\* the launch altitude
C2_Witness ==
    \/ /\ Len(segment_tracked) >= 4
       /\ detectDescent(segment_tracked, 0) # NoIndex
       /\ \E i, j \in 1..Len(segment_tracked) :
              /\ i < j
              /\ segment_tracked[i].elevation = segment_tracked[j].elevation
              /\ FirstHighest(segment_tracked, i - 1)
    \/ /\ LastThreeNonIncreasing(segment_tracked)
       /\ detectDescent(segment_tracked, 100) = NoIndex
       /\ detectDescent(segment_tracked, 0) # NoIndex

\* the fix of a message, as a waypoint of the given name
FixOf(msg, name) ==
    [latitude |-> msg.LAT, longitude |-> msg.LON, elevation |-> msg.ALT,
     time |-> msg.DATETIME, name |-> name]

\* the cycle of this iteration called doOneLivePrediction in state Ascending
\* with the latest tracked altitude above the configured ceiling
AscendingAboveCeiling ==
    /\ cycle.msg # None
    /\ cycle.top_point0 = None
    /\ Last(segment_tracked).elevation > top_height

WithinFence(lon, lat) == distance(launch_lon, launch_lat, lon, lat) <= geofence_radius

MsgWithinFence(msg) == WithinFence(msg.LON, msg.LAT)

Complete(msg) == DOMAIN msg = Keys

TrackPointOf(msg) ==
    [latitude |-> msg.LAT, longitude |-> msg.LON, elevation |-> msg.ALT,
     time |-> msg.DATETIME]

\* the last k elements of a sequence
Tail_(seq, k) == [i \in 1..k |-> seq[Len(seq) - k + i]]

\* the for loop of this iteration has gone over all messages of the poll
LoopDone == cycle.outcome \in {"forecast", "all_invalid"} \/ cycle.msg # None

\* C4: with a geofence radius > 0, every tracked point lies within the
\* geofence of the configured launch site; the points appended by a poll are
\* exactly its fixes that passed the check; the fix handed to the planner is
\* the last fix of the poll that passed the check; a poll whose fixes all
\* fail triggers no forecast.
C4_GeofenceFiltersFixes ==
    geofence_radius > 0 =>
        /\ \A i \in 1..Len(segment_tracked) :
               WithinFence(segment_tracked[i].longitude, segment_tracked[i].latitude)
        /\ LoopDone =>
               LET passed == SelectSeq(messages, MsgWithinFence)
               IN  /\ Len(passed) <= Len(segment_tracked)
                   /\ Tail_(segment_tracked, Len(passed))
                          = [i \in 1..Len(passed) |-> TrackPointOf(passed[i])]
                   /\ cycle.msg # None =>
                          /\ cycle.msg = passed[Len(passed)]
                          /\ \A i \in 1..Len(messages) :
                                 MsgWithinFence(messages[i]) =>
                                     messages[i].DATETIME <= cycle.msg.DATETIME
                   /\ Len(passed) = 0 =>
                          /\ cycle.outcome = "all_invalid"
                          /\ cycle.msg = None
                          /\ cycle.prediction = None

\* a forecast from a poll whose last fix failed the check
C4_Witness ==
    /\ cycle.outcome = "forecast"
    /\ Len(messages) = 2
    /\ ~MsgWithinFence(messages[2])
    /\ cycle.msg = messages[1]
    /\ Len(segment_tracked) >= 2

\* the try block of this iteration has handled a poll that returned messages
PollHandled ==
    /\ cycle.outcome \in {"forecast", "all_invalid", "exception"}
    /\ Len(messages) > 0

LacksPosition(msg) == {"LON", "LAT", "ALT"} \ DOMAIN msg # {}

ValidRecord(msg) == Complete(msg) /\ MsgWithinFence(msg)

\* C5 (as claimed): a record lacking lon, lat or alt is dropped on its own:
\* every valid record of the same poll is appended, and a forecast is run
\* from the last valid record of the poll.
C5_IncompleteRecordDroppedAlone ==
    ( /\ PollHandled
      /\ \E i \in 1..Len(messages) : LacksPosition(messages[i])
      /\ \A i \in 1..Len(messages) : "DATETIME" \in DOMAIN messages[i] ) =>
        LET valid == SelectSeq(messages, ValidRecord)
        IN  /\ Len(valid) <= Len(segment_tracked)
            /\ Tail_(segment_tracked, Len(valid))
                   = [i \in 1..Len(valid) |-> TrackPointOf(valid[i])]
            /\ Len(valid) > 0 => cycle.msg = valid[Len(valid)]

\* C6 (as claimed): between any two consecutive polls the loop sleeps: when
\* the loop is about to poll, either it has not polled yet or it has slept
\* since the last poll.
C6_SleepBetweenPolls ==
    pc = "poll" => cycle.outcome \in {"start", "slept"}

\* The loop with polls of at most one message; its body takes its steps
\* as long as it is not interrupted.
ReceiveFew == ReceiveFrom(FewBatches)

NextFew == ReceiveFew \/ Process \/ Sleep \/ Stop

FairSpec ==
    /\ Init /\ [][NextFew]_allVars
    /\ WF_vars(ReceiveFew) /\ WF_vars(Process) /\ WF_vars(Sleep)

\* getDecodedMessages has just returned or raised
Polled ==
    \/ cycle.outcome = "polled"
    \/ cycle.outcome = "exception" /\ messages = << >>

\* C7: the live loop never ends on its own: an exception raised in a cycle
\* is caught and the loop comes back to polling, and polls occur for ever,
\* unless the loop is stopped from outside.
C7_LoopNeverEnds ==
    /\ (cycle.outcome = "exception") ~> (pc = "poll" \/ pc = "stopped")
    /\ ([]<>Polled) \/ <>(pc = "stopped")

\* an exception raised in a cycle that had appended a fix has been caught
C7_Witness ==
    /\ pc = "sleep"
    /\ cycle.outcome = "exception"
    /\ cycle.msg # None
    /\ Len(segment_tracked) >= 2

Names(waypoints) == [i \in 1..Len(waypoints) |-> waypoints[i].name]

\* the leg starts at the given track point
StartsAt(segment, pkt) ==
    /\ segment.time = pkt.time
    /\ segment.longitude = pkt.longitude
    /\ segment.latitude = pkt.latitude
    /\ segment.elevation = pkt.elevation

\* C8: a cycle that ends Ascending writes a 'cut now' track (tracked segment,
\* then a descent from the current fix, waypoints Launch, Current,
\* Landing (cut)) and an as-planned track (tracked segment, ascent from the
\* current fix to the ceiling, descent from the ceiling, waypoints Launch,
\* Current, Ceiling, Landing); a cycle that ends Descending writes one track
\* (tracked segment, descent from the current fix, waypoints Launch, Ceiling,
\* Current, Landing) and no 'cut now' track.
C8_ProjectionsOfACycle ==
    cycle.outcome = "forecast" =>
        LET r == cycle.prediction
            cur == Last(segment_tracked)
        IN  /\ r.track[1] = [leg |-> "tracked", points |-> segment_tracked]
            /\ r.waypoints[1] = launch_point
            /\ launch_point.name = "Launch"
            /\ IF top_point = None
               THEN /\ Len(r.track_cut) = 2
                    /\ r.track_cut[1] = r.track[1]
                    /\ r.track_cut[2].leg = "descent"
                    /\ StartsAt(r.track_cut[2], cur)
                    /\ Names(r.waypoints_cut) = << "Launch", "Current", "Landing (cut)" >>
                    /\ r.waypoints_cut[1] = launch_point
                    /\ r.waypoints_cut[2] = FixOf(cycle.msg, "Current")
                    /\ r.waypoints_cut[3].endOf = r.track_cut[2]
                    /\ Len(r.track) = 3
                    /\ r.track[2].leg = "ascent"
                    /\ StartsAt(r.track[2], cur)
                    /\ r.track[2].top = top_height
                    /\ r.track[3].leg = "descent"
                    /\ r.track[3].startsAtEndOf = r.track[2]
                    /\ r.track[3].elevation = top_height
                    /\ Names(r.waypoints) = << "Launch", "Current", "Ceiling", "Landing" >>
                    /\ r.waypoints[2] = FixOf(cycle.msg, "Current")
                    /\ r.waypoints[3].endOf = r.track[2]
                    /\ r.waypoints[3].elevation = top_height
                    /\ r.waypoints[4].endOf = r.track[3]
               ELSE /\ Len(r.track_cut) = 0
                    /\ Len(r.waypoints_cut) = 0
                    /\ Len(r.track) = 2
                    /\ r.track[2].leg = "descent"
                    /\ StartsAt(r.track[2], cur)
                    /\ Names(r.waypoints) = << "Launch", "Ceiling", "Current", "Landing" >>
                    /\ r.waypoints[2] = top_point
                    /\ r.waypoints[3] = FixOf(cycle.msg, "Current")
                    /\ r.waypoints[4].endOf = r.track[2]

\* a cycle that ended Descending after cycles that ended Ascending
C8_Witness ==
    /\ cycle.outcome = "forecast"
    /\ cycle.launch_point0 # None
    /\ cycle.top_point0 = None
    /\ top_point # None
    /\ Len(cycle.prediction.track) = 2
    /\ Len(segment_tracked) >= 3

\* C9 (as claimed): in a Descending cycle the projected descent starts at the
\* current fix's altitude with an initial vertical velocity v equal to the
\* finite difference of the last two tracked samples,
\* v * (time[last] - time[last-1]) = alt[last] - alt[last-1]; in an Ascending
\* cycle the projected descents start with velocity 0.
C9_DescentSeededByFiniteDifference ==
    cycle.outcome = "forecast" =>
        LET r == cycle.prediction
            n == Len(segment_tracked)
            v == r.initial_descent_velocity
        IN  IF top_point # None
            THEN /\ Last(r.track).elevation = segment_tracked[n].elevation
                 /\ Last(r.track).initial_velocity = v
                 /\ n >= 2
                 /\ ~v.nan
                 /\ v.value * (segment_tracked[n].time - segment_tracked[n - 1].time)
                        = segment_tracked[n].elevation - segment_tracked[n - 1].elevation
            ELSE /\ v = [nan |-> FALSE, value |-> 0]
                 /\ Last(r.track).initial_velocity = v
                 /\ Last(r.track_cut).initial_velocity = v

\* C10: the tracker starts Ascending with no launch point; a launch point,
\* once set, is the first point of the tracked segment, which never changes,
\* and no later step changes the launch point.
C10_LaunchPointIsFirstFix ==
    /\ (top_point = None /\ launch_point = None)
    /\ [](launch_point # None =>
              /\ Len(segment_tracked) >= 1
              /\ launch_point = [latitude |-> segment_tracked[1].latitude,
                                 longitude |-> segment_tracked[1].longitude,
                                 elevation |-> segment_tracked[1].elevation,
                                 time |-> segment_tracked[1].time,
                                 name |-> "Launch"])
    /\ [][(Len(segment_tracked) >= 1 => /\ Len(segment_tracked') >= 1
                                        /\ segment_tracked'[1] = segment_tracked[1])
          /\ (launch_point # None => launch_point' = launch_point)]_vars

\* a later cycle ran with the launch point set, on fixes unlike the first
C10_Witness ==
    /\ cycle.outcome = "forecast"
    /\ cycle.launch_point0 # None
    /\ Len(segment_tracked) >= 3
    /\ segment_tracked[Len(segment_tracked)] # segment_tracked[1]
    /\ segment_tracked[2] # segment_tracked[1]

\* ------------------------------------------------------------------- C12
\* C12: after any sequence of polls the timestamps of the tracked segment
\* are non-decreasing, also when fixes arrive out of order within a poll or
\* across polls.
C12_TrackedSegmentTimeMonotonic ==
    \A i \in 1..(Len(segment_tracked) - 1) :
        segment_tracked[i].time <= segment_tracked[i + 1].time

\* ============================================================ trajectories
\* ---------------------------------------------------------------- numbers
\* Altitudes, times and positions are floating-point numbers in the code;
\* here they are exact fractions num/den with den > 0, in lowest terms.
\* A floating-point number has a mantissa of MantissaBits bits.
MantissaBits == 8

RECURSIVE Pow2(_)
Pow2(n) == IF n = 0 THEN 1 ELSE 2 * Pow2(n - 1)

RECURSIVE GCD(_, _)
GCD(a, b) == IF b = 0 THEN a ELSE GCD(b, a % b)

Frac(n, d) ==
    LET g == GCD(Abs(n), Abs(d))
        sgn == IF d < 0 THEN -1 ELSE 1
    IN  [num |-> sgn * (n \div g), den |-> sgn * (d \div g)]

Num(k) == [num |-> k, den |-> 1]
Plus(a, b) == Frac(a.num * b.den + b.num * a.den, a.den * b.den)
Minus(a, b) == Frac(a.num * b.den - b.num * a.den, a.den * b.den)
Times_(a, b) == Frac(a.num * b.num, a.den * b.den)
Over(a, b) == Frac(a.num * b.den, a.den * b.num)       \* b # 0
Less(a, b) == a.num * b.den < b.num * a.den
Leq(a, b) == a.num * b.den <= b.num * a.den
Floor(a) == a.num \div a.den
Ceil(a) == -((-a.num) \div a.den)

\* num/den scaled by powers of two until its integer part has MantissaBits
\* bits, then rounded to the nearest integer, ties to even
RECURSIVE RoundTo(_, _, _)
RoundTo(num, den, e) ==
    IF num >= Pow2(MantissaBits) * den THEN RoundTo(num, 2 * den, e + 1)
    ELSE IF num < Pow2(MantissaBits - 1) * den THEN RoundTo(2 * num, den, e - 1)
    ELSE LET q == num \div den
             r == num % den
             up == 2 * r > den \/ (2 * r = den /\ q % 2 = 1)
         IN  [m |-> IF up THEN q + 1 ELSE q, e |-> e]

\* the floating-point number nearest to a: the result of an operation of
\* floating-point arithmetic whose exact result is a
Float(a) ==
    IF a.num = 0 THEN a
    ELSE LET r == RoundTo(Abs(a.num), a.den, 0)
             sgn == IF a.num < 0 THEN -1 ELSE 1
         IN  IF r.e >= 0 THEN Frac(sgn * r.m * Pow2(r.e), 1)
                         ELSE Frac(sgn * r.m, Pow2(-r.e))

\* the length of np.arange(start, stop, step): ceil((stop - start)/step)
arangeLength(start, stop, step) ==
    LET n == Ceil(Float(Over(Float(Minus(stop, start)), step)))
    IN  IF n > 0 THEN n ELSE 0

\* np.arange(start, stop, step): start + i*step for i below the length
arange(start, stop, step) ==
    [i \in 1..arangeLength(start, stop, step) |->
        Float(Plus(start, Float(Times_(Num(i - 1), step))))]

\* equidistantAltitudeGrid: the time and altitude grid for a constant
\* vertical velocity, with the end point appended
equidistantAltitudeGrid(start_datetime, start_altitude, end_altitude, ascent_velocity, timestep) ==
    LET duration == Float(Over(Float(Minus(end_altitude, start_altitude)), ascent_velocity))
        top_datetime == Plus(start_datetime, duration)
        seconds == arange(Num(0), duration, timestep)
    IN  [datetime_vector |->
             Append([i \in 1..Len(seconds) |-> Plus(start_datetime, seconds[i])],
                    top_datetime),
         altitude_vector |->
             Append(arange(start_altitude, end_altitude,
                           Float(Times_(ascent_velocity, timestep))),
                    end_altitude)]

\* assert(len(datetime_vector) == len(altitude_vector)) fails
gridAssertionFails(start_altitude, end_altitude, ascent_velocity, timestep) ==
    LET duration == Float(Over(Float(Minus(end_altitude, start_altitude)), ascent_velocity))
    IN  arangeLength(Num(0), duration, timestep)
            # arangeLength(start_altitude, end_altitude,
                           Float(Times_(ascent_velocity, timestep)))

\* ------------------------------------------------------ predictTrajectory
MaxTile == 3             \* terrain tiles 0..MaxTile along the flight path

TileSize == 10           \* width of a terrain tile, in position units
GridMax == 15            \* the wind field covers positions 0..GridMax
Grounds == {0, 60, 200}  \* ground elevations, in m
Winds == {0, 1}          \* u and v wind, position units per second
DescentStarts == {100, 120}      \* start altitudes of descents, in m
AscentTops == {100}              \* top altitudes of ascents from 0 m
VerticalVelocity == 5            \* m/s
Timestep == 10                   \* s

Terrains == [0..MaxTile -> { Num(e) : e \in Grounds } \cup {None}]

\* the (datetime, altitude) grids handed to predictTrajectory by
\* predictDescent and predictAscent
Profiles ==
    { equidistantAltitudeGrid(Num(0), Num(a), Num(0), Num(-VerticalVelocity), Num(Timestep)) :
          a \in DescentStarts }
    \cup
    { equidistantAltitudeGrid(Num(0), Num(0), Num(a), Num(VerticalVelocity), Num(Timestep)) :
          a \in AscentTops }

\* srtm.get_elevation(lat, lon): the elevation of the tile the position
\* lies in, None where there is no data
get_elevation(terrain, lat, lon) ==
    LET tile == Floor(Over(lon, Num(TileSize)))
    IN  IF tile \in DOMAIN terrain THEN terrain[tile] ELSE None

\* interp_u / interp_v raise ValueError for a position outside the grid
interpolationRaises(md, px, py) ==
    \/ Less(px, Num(0)) \/ Less(Num(md.x_max), px)
    \/ Less(py, Num(0)) \/ Less(Num(md.x_max), py)

\* a track point built with latitude and longitude exchanged
GPXTrackPoint_LonLat(lat, lon, elevation, time) ==
    [latitude |-> lon, longitude |-> lat, elevation |-> elevation, time |-> time]

GPXTrackPoint(lat, lon, elevation, time) ==
    [latitude |-> lat, longitude |-> lon, elevation |-> elevation, time |-> time]

\* a loop that goes on after the landing
leavesLoop_Never(landed) == FALSE

\* if has_landed: break
leavesLoop(landed) == landed

\* the call predictTrajectory(dt, altitude, model_data, lon_start, lat_start)
TrajInit ==
    /\ tpc = "loop"
    /\ \E profile \in Profiles :
          /\ dt = profile.datetime_vector
          /\ altitude = profile.altitude_vector
    /\ \E u, v \in Winds : model_data = [u_wind |-> u, v_wind |-> v, x_max |-> GridMax]
    /\ srtm \in Terrains
    /\ x = Num(0)
    /\ y = Num(0)
    /\ ind = 0
    /\ gpx_segment = << >>
    /\ surface_elevation = None
    /\ has_landed = FALSE
    /\ NotTrajOff

\* one iteration of "for ind in range(len(dt))"; sequences are indexed from 1
Iterate ==
    /\ tpc = "loop"
    /\ ind < Len(dt)
    /\ IF ind = 0
       THEN /\ gpx_segment' = Append(gpx_segment, GPXTrackPoint(y, x, altitude[1], dt[1]))
            /\ ind' = ind + 1
            /\ UNCHANGED << tpc, dt, x, y, has_landed, surface_elevation >>
       ELSE IF interpolationRaises(model_data, x, y)
       THEN /\ ind' = ind + 1        \* except ValueError: continue
            /\ UNCHANGED << tpc, dt, x, y, has_landed, gpx_segment, surface_elevation >>
       ELSE LET delta_t == Minus(dt[ind + 1], dt[ind])
                x1 == Plus(x, Times_(delta_t, Num(model_data.u_wind)))
                y1 == Plus(y, Times_(delta_t, Num(model_data.v_wind)))
                ground == get_elevation(srtm, y1, x1)
                hit == /\ ground # None
                       /\ Less(altitude[Len(altitude)], altitude[1])
                       /\ Leq(altitude[ind + 1], ground)
                step == Minus(altitude[ind + 1], altitude[ind])
            IN  IF hit /\ step.num = 0
                THEN \* the fraction is inf or nan, which timedelta rejects
                     /\ tpc' = "raised"
                     /\ surface_elevation' = ground
                     /\ UNCHANGED << dt, x, y, ind, has_landed, gpx_segment >>
                ELSE LET below_ground ==
                             Minus(ground, altitude[ind + 1])
                         timestep_fraction == Over(below_ground, step)
                         back == Times_(timestep_fraction, delta_t)
                         x2 == IF hit THEN Minus(x1, Times_(back, Num(model_data.u_wind)))
                                      ELSE x1
                         y2 == IF hit THEN Minus(y1, Times_(back, Num(model_data.v_wind)))
                                      ELSE y1
                         dt2 == IF hit THEN [k \in 1..Len(dt) |-> Minus(dt[k], back)]
                                       ELSE dt
                     IN  /\ surface_elevation' = ground
                         /\ x' = x2
                         /\ y' = y2
                         /\ dt' = dt2
                         /\ has_landed' = hit
                         /\ gpx_segment' = Append(gpx_segment,
                                GPXTrackPoint(y2, x2, altitude[ind + 1], dt2[ind + 1]))
                         /\ IF leavesLoop(hit)
                            THEN tpc' = "returned" /\ ind' = ind
                            ELSE tpc' = tpc /\ ind' = ind + 1
    /\ UNCHANGED << altitude, model_data, srtm >>
    /\ UNCHANGED notTraj

\* the loop is exhausted: return gpx_segment
Return ==
    /\ tpc = "loop"
    /\ ind = Len(dt)
    /\ tpc' = "returned"
    /\ UNCHANGED << dt, altitude, model_data, srtm, x, y, ind, gpx_segment,
                    surface_elevation, has_landed >>
    /\ UNCHANGED notTraj

TrajNext == Iterate \/ Return

TrajSpec == TrajInit /\ [][TrajNext]_allVars

\* ------------------------------------------------------------------- C13
\* points of the segment that carry the altitude of input step i (from 0)
PointsOfStep(i) ==
    { k \in 1..Len(gpx_segment) : gpx_segment[k].elevation = altitude[i + 1] }

\* C13: when predictTrajectory detects ground contact at input step ind of a
\* descending profile, it has appended exactly one point for that step, as
\* the last point, and has returned: the segment holds no point of a later
\* step, and the call has not ended in an error.
C13_GroundContactEndsSegment ==
    /\ tpc # "raised"
    /\ has_landed =>
          /\ tpc = "returned"
          /\ Less(altitude[Len(altitude)], altitude[1])
          /\ PointsOfStep(ind) = { Len(gpx_segment) }
          /\ \A i \in (ind + 1)..(Len(altitude) - 1) : PointsOfStep(i) = {}

\* ground contact before the last step of the profile
C13_Witness ==
    /\ has_landed
    /\ tpc = "returned"
    /\ ind + 1 < Len(altitude)
    /\ Len(gpx_segment) = ind + 1

\* ------------------------------------------------------------------- C14
\* the altitude change of one integration step
Tolerance == Num(VerticalVelocity * Timestep)

Descending == Less(altitude[Len(altitude)], altitude[1])

FarBelow(elevation, ground) ==
    ground # None /\ Less(elevation, Minus(ground, Tolerance))

\* C14: for a descending profile no emitted point, the first and the final
\* ground-contact point included, lies below the terrain elevation queried
\* at its position by more than the altitude change of one integration step.
C14_NoPointFarBelowTerrain ==
    Descending =>
        /\ Len(gpx_segment) >= 1 =>
              ~FarBelow(gpx_segment[1].elevation,
                        get_elevation(srtm, gpx_segment[1].latitude,
                                      gpx_segment[1].longitude))
        /\ Len(gpx_segment) >= 2 =>
              ~FarBelow(Last(gpx_segment).elevation, surface_elevation)

\* =================================================== live forecast in the GUI
\* OperatorWidget keeps segment_tracked, launch_point and top_point as
\* attributes. Its timer calls queryMessages in the main thread; each
\* doLiveForecast runs as a Worker of the thread pool.
MaxWorkers == 2          \* most workers started and not yet finished

Idle == [at |-> "idle", msg |-> None]

Running(w) == threadpool[w].at \in {"detect", "ceiling", "predict"}

\* The for loop of queryMessages over the messages as received, after its
\* first k iterations: records without position and fixes outside the
\* geofence are flagged, the others appended (message2trackpoint raises
\* KeyError for a record without DATETIME).
RECURSIVE queryLoop(_, _, _)
queryLoop(msgs, radius, k) ==
    IF k = 0
    THEN [points |-> << >>, is_invalid |-> [i \in 1..Len(msgs) |-> FALSE], raised |-> FALSE]
    ELSE LET prev == queryLoop(msgs, radius, k - 1)
             msg == msgs[k]
         IN  IF prev.raised THEN prev
             ELSE IF {"LON", "LAT", "ALT"} \ DOMAIN msg # {}
                  THEN [prev EXCEPT !.is_invalid[k] = TRUE]
             ELSE IF ~checkGeofence(msg.LON, msg.LAT, launch_lon, launch_lat, radius)
                  THEN [prev EXCEPT !.is_invalid[k] = TRUE]
             ELSE IF "DATETIME" \notin DOMAIN msg
                  THEN [prev EXCEPT !.raised = TRUE]
             ELSE [prev EXCEPT !.points = Append(@, message2trackpoint(msg))]

\* startLiveForecast has run and the model data are downloaded: the timer
\* is started
GuiInit ==
    /\ pc = "gui"
    /\ geofence_radius \in GeofenceRadii
    /\ top_height \in TopHeights
    /\ segment_tracked = << [latitude |-> launch_lat, longitude |-> launch_lon,
                             elevation |-> 0, time |-> 0] >>
    /\ launch_point = GPXWaypoint(segment_tracked[1], "Launch")
    /\ top_point = None
    /\ messages = << >>
    /\ cycle = None
    /\ timer = "active"
    /\ threadpool = [w \in 1..MaxWorkers |-> Idle]
    /\ maxThreadCount \in {1, 2}
    /\ NotGuiOff

\* the timer's timeout: queryMessages, in the main thread
queryMessages ==
    /\ timer = "active"
    /\ \E batch \in FewBatches :
          LET loop == queryLoop(batch, geofence_radius, Len(batch))
              valid == \E i \in 1..Len(batch) : ~loop.is_invalid[i]
          IN  /\ Len(segment_tracked) + Len(batch) <= MaxTrack
              /\ segment_tracked' = segment_tracked \o loop.points
              /\ IF Len(batch) > 0 /\ ~loop.raised /\ valid
                 THEN \E w \in 1..MaxWorkers :
                          /\ threadpool[w] = Idle
                          /\ \A v \in 1..(w - 1) : threadpool[v] # Idle
                          /\ threadpool' =
                                [threadpool EXCEPT
                                    ![w] = [at |-> "queued",
                                            msg |-> lastValid(batch, loop.is_invalid)]]
                 ELSE UNCHANGED threadpool
    /\ UNCHANGED << pc, geofence_radius, top_height, launch_point, top_point,
                    messages, cycle, timer, maxThreadCount, notGui >>

\* the thread pool runs a queued worker when one of its threads is free
workerRun(w) ==
    /\ threadpool[w].at = "queued"
    /\ Cardinality({ v \in 1..MaxWorkers : Running(v) }) < maxThreadCount
    /\ threadpool' = [threadpool EXCEPT ![w].at = "detect"]
    /\ UNCHANGED << vars, timer, maxThreadCount, notGui >>

\* doLiveForecast: if self.top_point is None, look for the descent
workerDetect(w) ==
    /\ threadpool[w].at = "detect"
    /\ top_point' = topPointDetected(segment_tracked, launch_point, top_point)
    /\ threadpool' = [threadpool EXCEPT ![w].at = "ceiling"]
    /\ UNCHANGED << pc, geofence_radius, top_height, segment_tracked, launch_point,
                    messages, cycle, timer, maxThreadCount, notGui >>

\* doLiveForecast: the ceiling rule
workerCeiling(w) ==
    /\ threadpool[w].at = "ceiling"
    /\ top_point' = topPointCeiling(segment_tracked, threadpool[w].msg, top_point, top_height)
    /\ threadpool' = [threadpool EXCEPT ![w].at = "predict"]
    /\ UNCHANGED << pc, geofence_radius, top_height, segment_tracked, launch_point,
                    messages, cycle, timer, maxThreadCount, notGui >>

\* doLiveForecast: the predictions from the last tracked point, to the end
workerPredict(w) ==
    /\ threadpool[w].at = "predict"
    /\ threadpool' = [threadpool EXCEPT ![w] = Idle]
    /\ UNCHANGED << vars, timer, maxThreadCount, notGui >>

\* stopLiveForecast: the timer is stopped, the workers run on
stopLiveForecast ==
    /\ timer = "active"
    /\ timer' = "stopped"
    /\ UNCHANGED << vars, threadpool, maxThreadCount, notGui >>

Run == \E w \in 1..MaxWorkers : workerRun(w)
Detect == \E w \in 1..MaxWorkers : workerDetect(w)
Ceiling == \E w \in 1..MaxWorkers : workerCeiling(w)
Predict == \E w \in 1..MaxWorkers : workerPredict(w)

GuiNext == queryMessages \/ Run \/ Detect \/ Ceiling \/ Predict \/ stopLiveForecast

GuiSpec == GuiInit /\ [][GuiNext]_allVars

\* ------------------------------------------------------------------- C11
\* C11: the flight state of a live session is used by one activity at a
\* time: no two forecast cycles of the session run at once, and no poll
\* appends to the tracked segment while a forecast cycle is running.
C11_OneActivityAtATime ==
    /\ [](Cardinality({ w \in 1..MaxWorkers : Running(w) }) <= 1)
    /\ [][segment_tracked' # segment_tracked =>
              \A w \in 1..MaxWorkers : ~Running(w)]_allVars

\* ========================================================== hourlyForecast
MaxHours == 3            \* largest forecast_length
FirstLaunches == {0, 1}  \* first launch time, in hours
Landings == {10, 20}     \* landing longitudes predictBalloonFlight may give

\* the flight predicted for a launch: its track ends at the landing point
predictBalloonFlight(launch, landing_lon) ==
    [name |-> launch,
     landing |-> [latitude |-> launch_lat, longitude |-> landing_lon, elevation |-> 0]]

\* for ind in range(forecast_length): gpx.tracks.append(individual_tracks[ind])
appendTracksRaises(tracks, length) == length > Len(tracks)

\* the branch taken after the loop of hourlyForecast: no forecast was done
noForecastDone(i, tracks) == i = 0

SweepInit ==
    /\ spc = "loop"
    /\ forecast_length \in 0..MaxHours
    /\ launch_datetime \in FirstLaunches
    /\ filelists \in SUBSET (0..(MaxHours + 1))
    /\ i_hour = NoIndex
    /\ hourly_segment = << >>
    /\ individual_tracks = << >>
    /\ hourly_track = None
    /\ NotSweepOff

\* one iteration of "for i_hour in range(forecast_length)"
sweepIterate ==
    /\ spc = "loop"
    /\ i_hour + 1 < forecast_length
    /\ i_hour' = i_hour + 1
    /\ IF launch_datetime \notin filelists
       THEN /\ spc' = "after"              \* break
            /\ UNCHANGED << launch_datetime, hourly_segment, individual_tracks >>
       ELSE \E landing_lon \in Landings :
            LET flight_track == predictBalloonFlight(launch_datetime, landing_lon)
            IN  /\ individual_tracks' = Append(individual_tracks, flight_track)
                /\ hourly_segment' = Append(hourly_segment,
                       flight_track.landing @@ [time |-> launch_datetime])
                /\ launch_datetime' = launch_datetime + 1
                /\ spc' = spc
    /\ UNCHANGED << forecast_length, filelists, hourly_track >>
    /\ UNCHANGED notSweep

\* the loop is exhausted
sweepLoopEnd ==
    /\ spc = "loop"
    /\ i_hour + 1 >= forecast_length
    /\ spc' = "after"
    /\ UNCHANGED << forecast_length, filelists, launch_datetime, i_hour,
                    hourly_segment, individual_tracks, hourly_track >>
    /\ UNCHANGED notSweep

\* the statements after the loop, to the return
sweepFinish ==
    /\ spc = "after"
    /\ IF i_hour = NoIndex
       THEN spc' = "raised" /\ UNCHANGED hourly_track   \* i_hour is unbound
       ELSE IF noForecastDone(i_hour, individual_tracks)
       THEN spc' = "returned" /\ hourly_track' = None
       ELSE IF appendTracksRaises(individual_tracks, forecast_length)
       THEN spc' = "raised" /\ UNCHANGED hourly_track   \* IndexError
       ELSE /\ spc' = "returned"
            /\ hourly_track' = [name |-> "Landing points", segments |-> << hourly_segment >>]
    /\ UNCHANGED << forecast_length, filelists, launch_datetime, i_hour,
                    hourly_segment, individual_tracks >>
    /\ UNCHANGED notSweep

SweepNext == sweepIterate \/ sweepLoopEnd \/ sweepFinish

SweepSpec == SweepInit /\ [][SweepNext]_allVars

\* ------------------------------------------------------------ C15 and C16
SweepDone == spc \in {"returned", "raised"}

\* the launch time of run 0: every completed run has advanced it by an hour
FirstLaunch == launch_datetime - Len(individual_tracks)

\* the runs before the first launch time without model data
CompletedRuns ==
    CHOOSE k \in 0..forecast_length :
        /\ \A j \in 0..(k - 1) : FirstLaunch + j \in filelists
        /\ k < forecast_length => FirstLaunch + k \notin filelists

\* C15: a sweep over N >= 1 launch times reports failure (no aggregate
\* track) if and only if the first iteration has no usable wind field; with
\* a wind field in the first iteration it returns an aggregate track, for
\* any N, N = 1 included.
C15_SweepFailsIffNoFirstWind ==
    (SweepDone /\ forecast_length >= 1) =>
        IF FirstLaunch \in filelists
        THEN spc = "returned" /\ hourly_track # None
        ELSE spc = "returned" /\ hourly_track = None

\* C16: run k of the sweep uses launch time start + k hours, and the sweep
\* returns an aggregate track with one landing point per completed run, in
\* launch-time order and stamped with the run's launch time; also when the
\* wind field is missing at an iteration k >= 1, where it returns the k
\* landing points collected so far without raising.
C16_OneLandingPointPerRun ==
    (SweepDone /\ forecast_length >= 1 /\ FirstLaunch \in filelists) =>
        /\ spc = "returned"
        /\ hourly_track # None
        /\ Len(hourly_track.segments) = 1
        /\ LET points == hourly_track.segments[1]
           IN  /\ Len(points) = CompletedRuns
               /\ Len(individual_tracks) = CompletedRuns
               /\ \A k \in 1..Len(points) :
                     /\ individual_tracks[k].name = FirstLaunch + k - 1
                     /\ points[k].time = FirstLaunch + k - 1
                     /\ points[k].longitude = individual_tracks[k].landing.longitude
                     /\ points[k].latitude = individual_tracks[k].landing.latitude

\* ============================================================ main: start-up
DescentMargin == 1000    \* m above the cut altitude
AscentMargin == 2000     \* m
CutAltitudes == {10000, 12000}
BurstHeights == {10000, 11000, 12000, 13000, 14000, 15000}

\* main has read its arguments and configuration and has computed the
\* balloon performance (twoBalloonFilling or balloonFilling)
MainInit ==
    /\ mpc = "performance"
    /\ two_balloon \in BOOLEAN
    /\ cut_altitude \in (IF two_balloon THEN CutAltitudes ELSE CutAltitudes \cup {NoIndex})
    /\ ascent_burst_height \in BurstHeights
    /\ descent_burst_height \in (IF two_balloon THEN BurstHeights ELSE {NoIndex})
    /\ main_top_height = NoIndex
    /\ model_data_fetched = FALSE
    /\ NotMainOff

\* if ascent_burst_height < cut_altitude + 2000
ascentBurstsTooLow(ascent_burst, descent_burst, cut) ==
    ascent_burst < cut + AscentMargin

\* "Compute balloon performance": the checks and top_height
checkPerformance ==
    /\ mpc = "performance"
    /\ IF two_balloon
       THEN IF descent_burst_height < cut_altitude + DescentMargin
            THEN mpc' = "raised" /\ UNCHANGED main_top_height
            ELSE IF ascentBurstsTooLow(ascent_burst_height, descent_burst_height,
                                       cut_altitude)
            THEN mpc' = "raised" /\ UNCHANGED main_top_height
            ELSE mpc' = "predict" /\ main_top_height' = cut_altitude
       ELSE /\ mpc' = "predict"
            /\ main_top_height' =
                  IF cut_altitude # NoIndex /\ cut_altitude < ascent_burst_height
                  THEN cut_altitude
                  ELSE ascent_burst_height
    /\ UNCHANGED << two_balloon, cut_altitude, ascent_burst_height,
                    descent_burst_height, model_data_fetched >>
    /\ UNCHANGED notMain

\* "Predict trajectory": the forecast fetches the model data and computes
predictTrajectories ==
    /\ mpc = "predict"
    /\ mpc' = "done"
    /\ model_data_fetched' = TRUE
    /\ UNCHANGED << two_balloon, cut_altitude, ascent_burst_height,
                    descent_burst_height, main_top_height >>
    /\ UNCHANGED notMain

MainNext == checkPerformance \/ predictTrajectories

MainSpec == MainInit /\ [][MainNext]_allVars

\* ------------------------------------------------------------------- C17
\* C17: for a two-balloon configuration start-up raises, before model data
\* are fetched or a trajectory is computed, exactly when the descent
\* balloon's burst height is below cut altitude + 1000 m or the ascent
\* balloon's burst height is below the descent balloon's burst height +
\* 2000 m; otherwise it goes on with top altitude equal to the cut altitude.
C17_TwoBalloonConfigurationChecked ==
    (two_balloon /\ mpc # "performance") =>
        IF \/ descent_burst_height < cut_altitude + DescentMargin
           \/ ascent_burst_height < descent_burst_height + AscentMargin
        THEN mpc = "raised" /\ ~model_data_fetched
        ELSE mpc \in {"predict", "done"} /\ main_top_height = cut_altitude

\* ------------------------------------------------------------------ filling
\* balloonFilling (filling.py) bisects the launch radius over [0, 3] m.  A
\* radius is a binary floating-point number m / 2^e with an odd mantissa m
\* of at most MantissaBits bits (0 is [m |-> 0, e |-> 0]); the mean of two
\* radii is rounded to that many bits, ties to even, as the float division
\* of the code rounds.

Radius(m, e) == [m |-> m, e |-> e]

\* the number of bits of n
RECURSIVE BitLength(_)
BitLength(n) == IF n = 0 THEN 0 ELSE 1 + BitLength(n \div 2)

\* m / 2^e with the factors two divided out
RECURSIVE Normalised(_, _)
Normalised(m, e) ==
    IF m = 0 THEN Radius(0, 0)
    ELSE IF m % 2 = 0 THEN Normalised(m \div 2, e - 1)
    ELSE Radius(m, e)

\* m / 2^e rounded to MantissaBits bits, ties to even
Rounded(m, e) ==
    LET excess == BitLength(m) - MantissaBits
    IN  IF excess <= 0 THEN Normalised(m, e)
        ELSE LET q == m \div Pow2(excess)
                 rem == m % Pow2(excess)
                 half == Pow2(excess - 1)
                 up == rem > half \/ (rem = half /\ q % 2 = 1)
             IN  Normalised(IF up THEN q + 1 ELSE q, e - excess)

\* a < b for two radii; exponents further apart than the mantissa is long
\* decide by themselves
RadiusLess(a, b) ==
    IF b.m = 0 THEN FALSE
    ELSE IF a.m = 0 THEN TRUE
    ELSE IF a.e - b.e > 2 * MantissaBits THEN TRUE
    ELSE IF b.e - a.e > 2 * MantissaBits THEN FALSE
    ELSE LET E == Max(a.e, b.e)
         IN  a.m * Pow2(E - a.e) < b.m * Pow2(E - b.e)

\* (r_min + r_max) / 2.
Mean(a, b) ==
    IF a.m = 0 THEN Rounded(b.m, b.e + 1)
    ELSE IF b.m = 0 THEN Rounded(a.m, a.e + 1)
    ELSE LET E == Max(a.e, b.e)
         IN  Rounded(a.m * Pow2(E - a.e) + b.m * Pow2(E - b.e), E + 1)

\* Velocities are in units of 0.005 m/s, so that epsilon = 1e-2 is 2.
Epsilon == 2
Iterations == 100
LastIteration == 99

\* balloonPerformance at a launch radius.  The ascent velocity
\* sign(F) * sqrt(|F| / (c * radius^2)), F = g * (volume * density - weight),
\* increases strictly with the radius, so a balloon with its payload is
\* given by the velocity v it is asked to reach and the three radii at which
\* it rises at v - epsilon, at v and at v + epsilon: below, at, above.  The
\* velocity is resolved to half an epsilon around v.  The neutral lift and
\* the burst height are functions of the radius, kept symbolic.
balloonPerformance(parameters, radius) ==
    [ neutral_lift |-> << "neutral_lift", radius >>,
      ascent_velocity |->
          IF ~RadiusLess(parameters.below, radius) THEN parameters.v - Epsilon
          ELSE IF RadiusLess(radius, parameters.at) THEN parameters.v - 1
          ELSE IF radius = parameters.at THEN parameters.v
          ELSE IF RadiusLess(radius, parameters.above) THEN parameters.v + 1
          ELSE parameters.v + Epsilon,
      burst_height |-> << "burst_height", radius >> ]

\* a balloon that reaches v at 3 / 2^k m, and within epsilon of v
\* between 5 / 2^(k+1) m and 7 / 2^(k+1) m
Balloon(v, k) ==
    [ v |-> v, below |-> Radius(5, k + 1), at |-> Normalised(6, k + 1), above |-> Radius(7, k + 1) ]

\* the balloons and velocities tried: |v - 5 m/s| < epsilon between 63/64 m and
\* 65/64 m; a descent at 5 m/s for a radius within (43/32 m, 45/32 m); a velocity
\* out of reach on [0, 3] m; velocities reached at 3 / 2^k m
Fillings ==
    { [ v |-> 1000, below |-> Radius(63, 6), at |-> Radius(1, 0), above |-> Radius(65, 6) ],
      [ v |-> -1000, below |-> Radius(43, 5), at |-> Radius(11, 3), above |-> Radius(45, 5) ],
      [ v |-> 10000, below |-> Radius(4, 0), at |-> Radius(5, 0), above |-> Radius(6, 0) ] }
    \cup { Balloon(-2000, k) : k \in {3, Iterations - 1, Iterations, Iterations + 1} }

\* np.abs(this_ascent_velocity - ascent_velocity) < epsilon
matches(this_ascent_velocity, wanted) == Abs(this_ascent_velocity - wanted) < Epsilon

exhausted_Never(i) == FALSE

\* the test after the loop: if i_loop == 99
exhausted(i) == i = LastIteration

FillInit ==
    /\ fpc = "loop"
    /\ balloon_parameters \in Fillings
    /\ target_velocity = balloon_parameters.v
    /\ r_min = Radius(0, 0)
    /\ r_max = Radius(3, 0)
    /\ launch_radius = None
    /\ i_loop = NoIndex
    /\ this_performance = None
    /\ filling = None
    /\ NotFillOff

\* one pass of the body of "for i_loop in range(100)"
bisect ==
    /\ fpc = "loop"
    /\ i_loop + 1 < Iterations
    /\ i_loop' = i_loop + 1
    /\ launch_radius' = Mean(r_min, r_max)
    /\ this_performance' = balloonPerformance(balloon_parameters, launch_radius')
    /\ LET this_ascent_velocity == this_performance'.ascent_velocity
       IN  IF matches(this_ascent_velocity, target_velocity)
           THEN /\ fpc' = "after"
                /\ UNCHANGED << r_min, r_max >>
           ELSE /\ fpc' = IF i_loop' + 1 < Iterations THEN "loop" ELSE "after"
                /\ r_max' = IF this_ascent_velocity > target_velocity THEN launch_radius' ELSE r_max
                /\ r_min' = IF this_ascent_velocity < target_velocity THEN launch_radius' ELSE r_min
    /\ UNCHANGED << balloon_parameters, target_velocity, filling >>
    /\ UNCHANGED notFill

\* after the loop: raise ValueError, or return
fillReturn ==
    /\ fpc = "after"
    /\ IF exhausted(i_loop)
       THEN /\ fpc' = "raised"
            /\ UNCHANGED filling
       ELSE /\ fpc' = "returned"
            /\ filling' = [ launch_radius |-> launch_radius,
                            neutral_lift |-> this_performance.neutral_lift,
                            burst_height |-> this_performance.burst_height ]
    /\ UNCHANGED << balloon_parameters, target_velocity, r_min, r_max, launch_radius,
                    i_loop, this_performance >>
    /\ UNCHANGED notFill

FillNext == bisect \/ fillReturn

FillSpec == FillInit /\ [][FillNext]_allVars

\* C18: when balloonFilling returns, balloonPerformance at the returned
\* radius gives a velocity within epsilon of the one asked for and exactly
\* the neutral lift and the burst height returned, and the radius lies in
\* [0, 3] m.
C18_FillingRoundTrip ==
    fpc = "returned" =>
        LET again == balloonPerformance(balloon_parameters, filling.launch_radius)
        IN  /\ matches(again.ascent_velocity, target_velocity)
            /\ again.neutral_lift = filling.neutral_lift
            /\ again.burst_height = filling.burst_height
            /\ ~RadiusLess(filling.launch_radius, Radius(0, 0))
            /\ ~RadiusLess(Radius(3, 0), filling.launch_radius)

\* a filling returned after the interval was cut from both sides
C18_Witness ==
    /\ fpc = "returned"
    /\ i_loop >= 3
    /\ r_min # Radius(0, 0)
    /\ r_max # Radius(3, 0)

\* C19: balloonFilling makes at most 100 passes, and it raises exactly when
\* none of them, the 100th included, came within epsilon of the velocity
\* asked for; when one did, it returns that radius.
C19_RaisesIffNoIterateMatches ==
    /\ i_loop < Iterations
    /\ fpc = "raised" =>
           ~matches(this_performance.ascent_velocity, target_velocity)
    /\ fpc = "returned" =>
           /\ matches(this_performance.ascent_velocity, target_velocity)
           /\ filling.launch_radius = launch_radius

\* ---------------------------------------------------------- parachuteDescent
\* parachuteDescent (parachute.py) integrates the equation of motion with
\* Runge-Kutta steps of delt = 0.2 s until the altitude is below 0, then
\* downsamples the arrays to the caller's timestep.  Here times are in tenths
\* of a second, altitudes in cm, velocities in cm/s and accelerations in
\* cm/s^2, in integer arithmetic rounding down.

delt == 2
g == 981
H == 7273
max_iter == 10000000

\* 2*m / (rhoa * (cdpara*paraarea + cdbox*boxarea)), in cm: the parachute and
\* payload of the call; the fall levels off near 5 m/s
DragLength == 250

MaxAltitude == 1500

\* start altitudes, initial velocities and output timesteps tried; the
\* timesteps are ones whose quotient by 0.2 the float division gives exactly
AltStarts == {-1, 0, 400, 900, MaxAltitude}
InitialVelocities == {0, -500, 300}
Timesteps == {1, 2, 5, 10, 20, 100}

\* -g + 1/(2*m)*rhoa*exp(-z/H)*(cdpara*paraarea+cdbox*boxarea)*s**2, with
\* exp(-z/H) to first order, 1 - z/H (H in m)
acceleration(alt, speed) ==
    (0 - g) + (((speed * speed) \div DragLength) * (H - (alt \div 100))) \div H

\* one Runge-Kutta step: delt/2 is a tenth of a second, delt a fifth, delt/6 a thirtieth
rungeKutta(alt, speed) ==
    LET k1z == speed
        k1s == acceleration(alt, speed)
        k2z == speed + (k1s \div 10)
        k2s == acceleration(alt + (k1z \div 10), speed + (k1s \div 10))
        k3z == speed + (k2s \div 10)
        k3s == acceleration(alt + (k2z \div 10), speed + (k2s \div 10))
        k4z == speed + (k3s \div 5)
        k4s == acceleration(alt + (k3z \div 5), speed + (k3s \div 5))
    IN  [ zn |-> alt + ((k1z + 2 * k2z + 2 * k3z + k4z) \div 30),
          sn |-> speed + ((k1s + 2 * k2s + 2 * k3s + k4s) \div 30) ]

\* int(np.round(timestep/delt)): np.round rounds a half to the even integer
downsampling_factor(step) ==
    LET q == step \div delt
    IN  IF step % delt = 0 THEN q
        ELSE IF q % 2 = 0 THEN q ELSE q + 1

\* array[::factor]
downsampled(array, factor) ==
    [ k \in 1..(((Len(array) - 1) \div factor) + 1) |-> array[(k - 1) * factor + 1] ]

lastRemoved_Never(last_time, time_end) == FALSE

\* if time[-1] != time_end
lastRemoved(last_time, time_end) == last_time # time_end

ChuteInit ==
    /\ cpc = "integrate"
    /\ chute_timestep \in Timesteps
    /\ t = 0
    /\ z \in AltStarts
    /\ s \in InitialVelocities
    /\ time_descent = << >>
    /\ alt_descent = << >>
    /\ velocity_descent = << >>
    /\ NotChuteOff

\* one pass of "for i in range(max_iter)"
integrate ==
    /\ cpc = "integrate"
    /\ LET i == Len(time_descent)
           step == rungeKutta(z, s)
       IN  IF z < 0
           THEN /\ cpc' = "downsample"
                /\ UNCHANGED << t, z, s, time_descent, alt_descent, velocity_descent >>
           ELSE /\ time_descent' = Append(time_descent, t)
                /\ alt_descent' = Append(alt_descent, z)
                /\ velocity_descent' = Append(velocity_descent, s)
                /\ t' = t + delt
                /\ z' = step.zn
                /\ s' = step.sn
                /\ cpc' = IF i = max_iter - 1 THEN "raised" ELSE "integrate"
    /\ UNCHANGED chute_timestep
    /\ UNCHANGED notChute

\* the rest of parachuteDescent, after the loop
downsample ==
    /\ cpc = "downsample"
    /\ IF Len(time_descent) = 0
       THEN /\ cpc' = "returned"
            /\ UNCHANGED << time_descent, alt_descent, velocity_descent >>
       ELSE LET time_end == Last(time_descent)
                altitude_end == Last(alt_descent)
                velocity_end == Last(velocity_descent)
                factor == downsampling_factor(chute_timestep)
            IN  IF factor = 0
                THEN \* slice step cannot be zero
                     /\ cpc' = "raised"
                     /\ UNCHANGED << time_descent, alt_descent, velocity_descent >>
                ELSE LET time == downsampled(time_descent, factor)
                         altitude_ == downsampled(alt_descent, factor)
                         velocity == downsampled(velocity_descent, factor)
                     IN  /\ cpc' = "returned"
                         /\ IF lastRemoved(Last(time), time_end)
                            THEN /\ time_descent' = Append(time, time_end)
                                 /\ alt_descent' = Append(altitude_, altitude_end)
                                 /\ velocity_descent' = Append(velocity, velocity_end)
                            ELSE /\ time_descent' = time
                                 /\ alt_descent' = altitude_
                                 /\ velocity_descent' = velocity
    /\ UNCHANGED << chute_timestep, t, z, s >>
    /\ UNCHANGED notChute

ChuteNext == integrate \/ downsample

ChuteSpec == ChuteInit /\ [][ChuteNext]_allVars

\* C20: whatever the output timestep, the last sample parachuteDescent
\* returns is the integrator's last sample at or above the ground: it is one
\* step of 0.2 s before the state with which the integration stopped, that
\* state is below 0 and is the Runge-Kutta step of the sample.
C20_TerminalSampleReturned ==
    (cpc = "returned" /\ Len(time_descent) > 0) =>
        LET n == Len(time_descent)
            step == rungeKutta(alt_descent[n], velocity_descent[n])
        IN  /\ Len(alt_descent) = n
            /\ Len(velocity_descent) = n
            /\ time_descent[n] = t - delt
            /\ alt_descent[n] >= 0
            /\ step.zn = z
            /\ step.sn = s
            /\ z < 0

\* a descent returned whose last integration step the downsampling had left out
C20_Witness ==
    /\ cpc = "returned"
    /\ downsampling_factor(chute_timestep) > 1
    /\ ((t \div delt) - 1) % downsampling_factor(chute_timestep) # 0
    /\ Len(time_descent) > 2

\* C21: the altitudes parachuteDescent returns never increase from one
\* sample to the next, whatever the start altitude, the timestep and the
\* initial velocity.
C21_AltitudeNeverIncreases ==
    cpc = "returned" =>
        \A k \in 1..(Len(alt_descent) - 1) : alt_descent[k + 1] <= alt_descent[k]

\* ------------------------------------------------------------------- C27
\* the times handed to predictTrajectory: the code shifts the whole vector dt
\* on ground contact, and the vector started at 0
TimeOfStep(k) == Minus(dt[k], dt[1])

\* C27: on ground contact at step i the final point is rolled back by the
\* fraction f = (terrain - altitude[i]) / (altitude[i-1] - altitude[i]) of
\* the last step: f is in [0, 1], the point's time is time[i] - f * delta_t,
\* between time[i-1] and time[i], and its position is the advected position
\* moved back by f * delta_t * wind, between the previous point's position
\* and the advected position.
C27_RolledBackToCrossing ==
    has_landed =>
        LET i == ind + 1
            n == Len(gpx_segment)
            last == gpx_segment[n]
            previous == gpx_segment[n - 1]
            u == Num(model_data.u_wind)
            f == Over(Minus(surface_elevation, altitude[i]),
                      Minus(altitude[i - 1], altitude[i]))
            delta_t == Minus(TimeOfStep(i), TimeOfStep(i - 1))
            advected == Plus(previous.longitude, Times_(delta_t, u))
        IN  /\ Leq(Num(0), f) /\ Leq(f, Num(1))
            /\ last.time = Minus(TimeOfStep(i), Times_(f, delta_t))
            /\ Leq(TimeOfStep(i - 1), last.time) /\ Leq(last.time, TimeOfStep(i))
            /\ last.longitude = Minus(advected, Times_(Times_(f, delta_t), u))
            /\ Leq(previous.longitude, last.longitude) /\ Leq(last.longitude, advected)

\* ------------------------------------------------------------------- C23
\* every point lies where the constant wind carries the balloon in the time
\* since the first point
DisplacedByWind ==
    \A k \in 1..Len(gpx_segment) :
        LET elapsed == Minus(gpx_segment[k].time, gpx_segment[1].time)
        IN  /\ gpx_segment[k].longitude =
                   Plus(gpx_segment[1].longitude, Times_(Num(model_data.u_wind), elapsed))
            /\ gpx_segment[k].latitude =
                   Plus(gpx_segment[1].latitude, Times_(Num(model_data.v_wind), elapsed))

FirstAtStart ==
    Len(gpx_segment) >= 1 =>
        /\ gpx_segment[1].longitude = Num(0)
        /\ gpx_segment[1].latitude = Num(0)
        /\ gpx_segment[1].elevation = altitude[1]

\* C23 as claimed: with a constant wind predictTrajectory returns one point
\* per input time step, the first at the start, each displaced from the
\* start by the wind times the time since the first step.
C23_OnePointPerStepDisplacedByWind ==
    tpc = "returned" =>
        /\ Len(gpx_segment) = Len(dt)
        /\ FirstAtStart
        /\ DisplacedByWind

\* C23, amended: one point per input time step up to the step of ground
\* contact (all steps when there is none and the balloon stays inside the
\* wind grid), never more than one per step; the first at the start, each
\* displaced by the wind times the time between the first point and it.
C23_PointsDisplacedByWind ==
    /\ Len(gpx_segment) <= Len(dt)
    /\ FirstAtStart
    /\ DisplacedByWind
    /\ tpc = "returned" =>
          /\ has_landed => Len(gpx_segment) = ind + 1
          /\ (~has_landed /\ ~interpolationRaises(model_data, x, y)) =>
                 Len(gpx_segment) = Len(dt)

\* a flight in wind that ended on the ground before the last time step
C23_Witness ==
    /\ tpc = "returned"
    /\ has_landed
    /\ model_data.u_wind # 0
    /\ Len(gpx_segment) >= 2
    /\ Len(gpx_segment) < Len(dt)
    /\ Last(gpx_segment).longitude # Num(0)

\* ============================================================ single calls
\* Functions without state are called once: the call is drawn from the
\* arguments tried and the result is what the function returns.
Returned(value) == [value |-> value]

Pending == call # None /\ result = None

\* ------------------------------------------------------------ checkGeofence
\* positions on the equator, in degrees; a radius of 0 stands for 0 and for
\* None, which "if radius:" treats alike
GeoLons == -3..3
GeoLaunchLons == {-1, 0, 1}
GeoRadii == {0, 111, 150, 222, 333}

GeoInit ==
    /\ call \in [ cur_lon : GeoLons, cur_lat : {0}, launch_lon : GeoLaunchLons,
                  launch_lat : {0}, radius : GeoRadii ]
    /\ result = None
    /\ NotCallOff

callCheckGeofence ==
    /\ Pending
    /\ result' = Returned(checkGeofence(call.cur_lon, call.cur_lat, call.launch_lon,
                                        call.launch_lat, call.radius))
    /\ UNCHANGED call
    /\ UNCHANGED notCall

GeoNext == callCheckGeofence

GeoSpec == GeoInit /\ [][GeoNext]_allVars

\* C24: checkGeofence is true for every position when the radius is zero or
\* unset, and for a radius above zero it is true exactly when the distance
\* between the position and the launch point is at most the radius.
C24_InsideIffWithinRadius ==
    result # None =>
        LET d == distance(call.launch_lon, call.launch_lat, call.cur_lon, call.cur_lat)
        IN  /\ call.radius = 0 => result.value = TRUE
            /\ call.radius > 0 => (result.value <=> d <= call.radius)

\* a position on the border of the fence was found inside, one beyond outside
C24_Witness ==
    /\ result # None
    /\ call.radius > 0
    /\ distance(call.launch_lon, call.launch_lat, call.cur_lon, call.cur_lat) = call.radius
    /\ result.value = TRUE

\* --------------------------------------------------------- lookupParameters
MaxRows == 3

\* rows of a balloon table (looked up by weight) and of a parachute table
\* (looked up by name)
BalloonRows == [ weight : {800, 1000}, burst_diameter : {7, 8} ]
ParachuteRows == [ name : {"Totex large", "Totex small"}, diameter : {1} ]

Tables(rows) == UNION { [1..k -> rows] : k \in 0..MaxRows }

\* np.where(parameter_list[:][key] == name)[0]
where(parameter_list, name, key) ==
    { i \in 1..Len(parameter_list) : parameter_list[i][key] = name }

lookupParameters(parameter_list, name, key) ==
    LET found == where(parameter_list, name, key)
    IN  IF Cardinality(found) # 1 THEN None
        ELSE parameter_list[CHOOSE i \in found : TRUE]

LookupInit ==
    /\ \/ call \in [ parameter_list : Tables(BalloonRows), name : {800, 1000, 1200},
                     key : {"weight"} ]
       \/ call \in [ parameter_list : Tables(ParachuteRows),
                     name : {"Totex large", "Totex small", "Spherachute"}, key : {"name"} ]
    /\ result = None
    /\ NotCallOff

callLookupParameters ==
    /\ Pending
    /\ result' = Returned(lookupParameters(call.parameter_list, call.name, call.key))
    /\ UNCHANGED call
    /\ UNCHANGED notCall

LookupNext == callLookupParameters

LookupSpec == LookupInit /\ [][LookupNext]_allVars

\* C25: for a value present in the table the lookup returns one row of the
\* table whose key is that value, and for a value absent from it None.
C25_RowIffPresent ==
    result # None =>
        IF \E i \in 1..Len(call.parameter_list) : call.parameter_list[i][call.key] = call.name
        THEN /\ result.value # None
             /\ result.value[call.key] = call.name
             /\ \E i \in 1..Len(call.parameter_list) : call.parameter_list[i] = result.value
        ELSE result.value = None

\* ---------------------------------------------------- equidistantAltitudeGrid
Raised(exception) == [raises |-> exception]

\* ascents and descents at constant velocity: start time, altitudes in m,
\* velocity in m/s, timestep in s
Ascents ==
    [ start_datetime : {Num(0), Num(3)}, start_altitude : {Num(0), Num(10)},
      end_altitude : {Num(50), Num(69), Num(79), Num(100)},
      ascent_velocity : {Num(5), Frac(55, 8), Frac(9, 8)}, timestep : {Num(5), Num(10)} ]

Descents ==
    [ start_datetime : {Num(0), Num(3)}, start_altitude : {Num(69), Num(79), Num(100)},
      end_altitude : {Num(0), Num(10)},
      ascent_velocity : {Num(-5), Frac(-55, 8)}, timestep : {Num(5), Num(10)} ]

GridInit ==
    /\ call \in Ascents \cup Descents
    /\ result = None
    /\ NotCallOff

callEquidistantAltitudeGrid ==
    /\ Pending
    /\ result' =
          IF gridAssertionFails(call.start_altitude, call.end_altitude,
                                call.ascent_velocity, call.timestep)
          THEN Raised("AssertionError")
          ELSE Returned(equidistantAltitudeGrid(call.start_datetime, call.start_altitude,
                   call.end_altitude, call.ascent_velocity, call.timestep))
    /\ UNCHANGED call
    /\ UNCHANGED notCall

GridNext == callEquidistantAltitudeGrid

GridSpec == GridInit /\ [][GridNext]_allVars

\* C26: equidistantAltitudeGrid returns a time vector and an altitude vector
\* of equal length, from the start time and altitude to the start time plus
\* the duration (end - start) / v and the end altitude, for ascents and
\* descents; when the duration is a whole multiple of the timestep,
\* consecutive times differ by the timestep.  Durations and altitudes are
\* taken as floating-point arithmetic gives them.
C26_GridFromStartToEnd ==
    result # None =>
        /\ "value" \in DOMAIN result
        /\ LET times == result.value.datetime_vector
               alts == result.value.altitude_vector
               duration == Float(Over(Float(Minus(call.end_altitude, call.start_altitude)),
                                      call.ascent_velocity))
               steps == Over(duration, call.timestep)
           IN  /\ Len(times) = Len(alts)
               /\ times[1] = call.start_datetime
               /\ alts[1] = call.start_altitude
               /\ Last(times) = Plus(call.start_datetime, duration)
               /\ Last(alts) = call.end_altitude
               /\ steps.den = 1 =>
                      /\ Len(times) = steps.num + 1
                      /\ \A k \in 1..(Len(times) - 1) :
                             Minus(times[k + 1], times[k]) = call.timestep

\* ======================================================= predictBalloonFlight
\* predictBalloonFlight calls predictAscent and predictDescent, which build
\* the altitude profile and call predictTrajectory (the steps Iterate and
\* Return above).

\* the samples of the integration in parachuteDescent, from (t0, z0, s0)
RECURSIVE integrated(_, _, _)
integrated(t0, z0, s0) ==
    IF z0 < 0 THEN << >>
    ELSE << [time |-> t0, altitude |-> z0, velocity |-> s0] >>
         \o integrated(t0 + delt, rungeKutta(z0, s0).zn, rungeKutta(z0, s0).sn)

\* parachuteDescent as a function: the samples returned, None when the
\* slicing raises
parachuteDescent(alt_start, step, initial_velocity) ==
    LET all == integrated(0, alt_start, initial_velocity)
        factor == downsampling_factor(step)
    IN  IF Len(all) = 0 THEN << >>
        ELSE IF factor = 0 THEN None
        ELSE LET kept == downsampled(all, factor)
             IN  IF lastRemoved(Last(kept).time, Last(all).time)
                 THEN Append(kept, Last(all))
                 ELSE kept

\* utils.roundSeconds(dt, 1): up to the next full second
roundSeconds(time) == Num(Ceil(time))

AbsFrac(a) == IF a.num < 0 THEN Frac(-a.num, a.den) ELSE a

\* geog.distance / 1000. for two positions on the equator, in km
geogDistance(lon1, lat1, lon2, lat2) == Times_(Num(KmPerDegree), AbsFrac(Minus(lon1, lon2)))

GPXWaypointAt(lat, lon, elevation, time, name) ==
    [latitude |-> lat, longitude |-> lon, elevation |-> elevation, time |-> time, name |-> name]

\* the landing position predictDescent returns for a descent from the top
landingPosition_Top(segment_descent, top_lon, top_lat) ==
    [lon |-> top_lon, lat |-> top_lat]

\* the landing position predictDescent returns
landingPosition(segment_descent, top_lon, top_lat) ==
    IF Len(segment_descent) > 0
    THEN [lon |-> Last(segment_descent).longitude, lat |-> Last(segment_descent).latitude]
    ELSE [lon |-> top_lon, lat |-> top_lat]

FlightGridMax == 1000
FlightTimestep == 10

\* the flights tried: from the launch point at 0 m up to 100 m at 5 m/s and
\* down at 5 m/s, or up to 20 m and down on the parachute, or a descent only
\* from 9 m or 15 m; wind of 0 or 1 position units per second; flat terrain
\* at 0 m or 60 m or without data
Flights ==
    { f \in [ launch_datetime : {Num(0)}, launch_lon : {Num(0), Num(5)}, launch_lat : {Num(0)},
              launch_altitude : {Num(0), Num(9), Num(15)}, top_height : {Num(20), Num(100)},
              ascent_velocity : {Num(VerticalVelocity)},
              descent_velocity : {Num(VerticalVelocity), None},
              descent_only : BOOLEAN, initial_velocity : {0, -500},
              u_wind : Winds, ground : {Num(0), Num(60), None} ] :
        /\ f.descent_only <=> f.launch_altitude # Num(0)
        /\ f.descent_velocity # None => f.initial_velocity = 0
        /\ (f.descent_velocity = None /\ ~f.descent_only) <=> f.top_height = Num(20) }

FlightInit ==
    /\ flpc = "start"
    /\ flight \in Flights
    /\ track_segments = << >>
    /\ waypoint_list = << >>
    /\ flight_range = None
    /\ TrajOff
    /\ NotFlightOff

\* the call predictTrajectory(datetimes, altitudes, model_data, lon, lat)
callPredictTrajectory(datetimes, altitudes, lon, lat) ==
    /\ tpc' = "loop"
    /\ dt' = datetimes
    /\ altitude' = altitudes
    /\ model_data' = [u_wind |-> flight.u_wind, v_wind |-> 0, x_max |-> FlightGridMax]
    /\ srtm' = [tile \in 0..(FlightGridMax \div TileSize) |-> flight.ground]
    /\ x' = lon
    /\ y' = lat
    /\ ind' = 0
    /\ gpx_segment' = << >>
    /\ surface_elevation' = None
    /\ has_landed' = FALSE

\* predictDescent up to its call of predictTrajectory
callPredictDescent(top_datetime, top_lon, top_lat, top) ==
    IF flight.descent_velocity # None
    THEN IF gridAssertionFails(top, Num(0), Minus(Num(0), flight.descent_velocity),
                               Num(FlightTimestep))
         THEN flpc' = "raised" /\ UNCHANGED trajVars
         ELSE LET grid == equidistantAltitudeGrid(top_datetime, top, Num(0),
                              Minus(Num(0), flight.descent_velocity), Num(FlightTimestep))
              IN  /\ flpc' = "descent"
                  /\ callPredictTrajectory(grid.datetime_vector, grid.altitude_vector,
                                           top_lon, top_lat)
    ELSE LET samples == parachuteDescent(Floor(Times_(top, Num(100))), 10 * FlightTimestep,
                                         flight.initial_velocity)
         IN  IF samples = None
             THEN flpc' = "raised" /\ UNCHANGED trajVars
             ELSE /\ flpc' = "descent"
                  /\ callPredictTrajectory(
                         [k \in 1..Len(samples) |-> Plus(top_datetime, Frac(samples[k].time, 10))],
                         [k \in 1..Len(samples) |-> Frac(samples[k].altitude, 100)],
                         top_lon, top_lat)

\* not descent_only: the Launch waypoint and predictAscent up to its call of
\* predictTrajectory
flightAscent ==
    /\ flpc = "start"
    /\ ~flight.descent_only
    /\ waypoint_list' = << GPXWaypointAt(flight.launch_lat, flight.launch_lon,
                                         flight.launch_altitude, flight.launch_datetime, "Launch") >>
    /\ IF gridAssertionFails(flight.launch_altitude, flight.top_height,
                             flight.ascent_velocity, Num(FlightTimestep))
       THEN flpc' = "raised" /\ UNCHANGED trajVars
       ELSE LET grid == equidistantAltitudeGrid(flight.launch_datetime, flight.launch_altitude,
                            flight.top_height, flight.ascent_velocity, Num(FlightTimestep))
            IN  /\ flpc' = "ascent"
                /\ callPredictTrajectory(grid.datetime_vector, grid.altitude_vector,
                                         flight.launch_lon, flight.launch_lat)
    /\ UNCHANGED << flight, track_segments, flight_range >>
    /\ UNCHANGED notFlight

\* predictTrajectory has returned the ascent: the rest of predictAscent, the
\* Burst waypoint and predictDescent up to its call of predictTrajectory
flightTop ==
    /\ flpc = "ascent"
    /\ tpc = "returned"
    /\ LET segment_ascent == gpx_segment
           top_lon == Last(segment_ascent).longitude
           top_lat == Last(segment_ascent).latitude
           top_datetime == roundSeconds(Last(dt))
       IN  /\ track_segments' = Append(track_segments, segment_ascent)
           /\ waypoint_list' = Append(waypoint_list,
                  GPXWaypointAt(top_lat, top_lon, flight.top_height, top_datetime, "Burst"))
           /\ callPredictDescent(top_datetime, top_lon, top_lat, flight.top_height)
    /\ UNCHANGED << flight, flight_range >>
    /\ UNCHANGED notFlight

\* descent_only: the Burst waypoint at the given position, and predictDescent
\* up to its call of predictTrajectory
flightDescentOnly ==
    /\ flpc = "start"
    /\ flight.descent_only
    /\ waypoint_list' = Append(waypoint_list,
           GPXWaypointAt(flight.launch_lat, flight.launch_lon, flight.launch_altitude,
                         flight.launch_datetime, "Burst"))
    /\ callPredictDescent(flight.launch_datetime, flight.launch_lon, flight.launch_lat,
                          flight.launch_altitude)
    /\ UNCHANGED << flight, track_segments, flight_range >>
    /\ UNCHANGED notFlight

\* predictTrajectory has returned the descent: the rest of predictDescent,
\* the Landing waypoint and the flight range
flightReturn ==
    /\ flpc = "descent"
    /\ tpc = "returned"
    /\ LET segment_descent == gpx_segment
           top == Last(waypoint_list)
           landing == landingPosition(segment_descent, top.longitude, top.latitude)
       IN  /\ track_segments' = Append(track_segments, segment_descent)
           /\ IF Len(segment_descent) = 0
              THEN \* segment_descent.points[-1]: IndexError
                   /\ flpc' = "raised"
                   /\ UNCHANGED << waypoint_list, flight_range >>
              ELSE /\ flpc' = "returned"
                   /\ waypoint_list' = Append(waypoint_list,
                          GPXWaypointAt(landing.lat, landing.lon,
                                        Last(segment_descent).elevation,
                                        Last(segment_descent).time, "Landing"))
                   /\ flight_range' = geogDistance(flight.launch_lon, flight.launch_lat,
                                                   landing.lon, landing.lat)
    /\ UNCHANGED flight
    /\ UNCHANGED trajVars
    /\ UNCHANGED notFlight

FlightNext ==
    \/ flightAscent
    \/ flightTop
    \/ flightDescentOnly
    \/ flightReturn
    \/ Iterate
    \/ Return

FlightSpec == FlightInit /\ [][FlightNext]_allVars

\* ------------------------------------------------------------------- C22
Position(point) == [lon |-> point.longitude, lat |-> point.latitude]

\* C22: when predictBalloonFlight has returned, its waypoints are Launch,
\* Burst, Landing and its track is the ascent segment followed by the descent
\* segment, the descent starting at the position of the last ascent point;
\* with descent_only the waypoints are Burst, Landing, the track is the
\* descent segment alone and its first point is at the given position,
\* altitude and time. In both cases the Landing waypoint is the last point of
\* the descent segment and the flight range is the distance from the given
\* position to that point.
C22_FlightComposition ==
    flpc = "returned" =>
        LET segment_descent == Last(track_segments)
            landing == Last(waypoint_list)
        IN  /\ IF flight.descent_only
               THEN /\ Names(waypoint_list) = << "Burst", "Landing" >>
                    /\ Len(track_segments) = 1
                    /\ segment_descent[1] =
                           GPXTrackPoint(flight.launch_lat, flight.launch_lon,
                                         flight.launch_altitude, flight.launch_datetime)
               ELSE /\ Names(waypoint_list) = << "Launch", "Burst", "Landing" >>
                    /\ Len(track_segments) = 2
                    /\ track_segments[1][1] =
                           GPXTrackPoint(flight.launch_lat, flight.launch_lon,
                                         flight.launch_altitude, flight.launch_datetime)
                    /\ Last(track_segments[1]).elevation = flight.top_height
                    /\ Position(segment_descent[1]) = Position(Last(track_segments[1]))
                    /\ segment_descent[1].elevation = flight.top_height
            /\ [latitude |-> landing.latitude, longitude |-> landing.longitude,
                elevation |-> landing.elevation, time |-> landing.time]
                   = Last(segment_descent)
            /\ flight_range = geogDistance(flight.launch_lon, flight.launch_lat,
                                           Last(segment_descent).longitude,
                                           Last(segment_descent).latitude)

\* a flight with ascent that has returned after drifting on both legs
C22_Witness ==
    /\ flpc = "returned"
    /\ ~flight.descent_only
    /\ Len(track_segments[2]) > 1
    /\ Position(Last(track_segments[1])) # Position(track_segments[1][1])
    /\ Position(Last(track_segments[2])) # Position(track_segments[2][1])
    /\ flight_range # Num(0)

\* a descent_only flight on the parachute that has returned after drifting
C22_WitnessDescentOnly ==
    /\ flpc = "returned"
    /\ flight.descent_only
    /\ flight.descent_velocity = None
    /\ Len(track_segments[1]) > 1
    /\ flight_range # Num(0)

\* ------------------------------------------------------------------- C28
\* this step is a cycle in which doOneLivePrediction returned
ForecastStep == pc = "process" /\ cycle'.outcome = "forecast"

\* what a cycle run on descent returns: the top point, the tracked segment
\* followed by the descent from the latest tracked point, no 'cut now' track,
\* the initial velocity taken from the last two tracked points
DescendingForecast(prediction, points) ==
    /\ prediction.top_point # None
    /\ Names(prediction.waypoints) = << "Launch", "Ceiling", "Current", "Landing" >>
    /\ Len(prediction.track) = 2
    /\ prediction.track[2].leg = "descent"
    /\ prediction.track[2].elevation = Last(points).elevation
    /\ prediction.track_cut = << >>
    /\ prediction.initial_descent_velocity = lastVerticalVelocity(points)

\* C28: once top_point is set, no step of the loop resets it to None,
\* whatever the later fixes report, and every later cycle in which
\* doOneLivePrediction returns was called with that top point and has made
\* the forecast of the descent.
C28_DescendingIsAbsorbing ==
    [][ top_point # None =>
          /\ top_point' # None
          /\ ForecastStep =>
                /\ cycle'.top_point0 = top_point
                /\ DescendingForecast(cycle'.prediction, segment_tracked') ]_allVars

\* a cycle called with a top point has returned although the latest fix is
\* higher than the one before and the last three fixes do not show a descent
C28_Witness ==
    /\ cycle.outcome = "forecast"
    /\ cycle.top_point0 # None
    /\ top_point # None
    /\ Len(segment_tracked) >= 3
    /\ Last(segment_tracked).elevation > segment_tracked[Len(segment_tracked) - 1].elevation
    /\ detectDescent(segment_tracked, launch_point.elevation) = NoIndex
    /\ Last(segment_tracked).elevation <= top_height

\* ------------------------------------------------------------------- C29
\* this step is a cycle whose try block ended in the except clause
ExceptionStep == pc = "process" /\ cycle'.outcome = "exception"

\* handling the record raises: it lacks a key that is read for it
Breaks(msg) ==
    /\ Keys \ DOMAIN msg # {}
    /\ {"LON", "LAT"} \subseteq DOMAIN msg => MsgWithinFence(msg)

\* the records of the poll handled before the first one that raises
BeforeBreak(msgs) ==
    LET broken == { i \in 1..Len(msgs) : Breaks(msgs[i]) }
    IN  IF broken = {} THEN msgs
        ELSE SubSeq(msgs, 1, (CHOOSE i \in broken : \A j \in broken : i <= j) - 1)

\* the track points of the fixes appended in a cycle that handles msgs:
\* none if sorting raises, else the fixes within the geofence that come
\* before the first record that raises
AppendedFixes(msgs) ==
    IF \E i \in 1..Len(msgs) : "DATETIME" \notin DOMAIN msgs[i]
    THEN << >>
    ELSE LET kept == SelectSeq(BeforeBreak(msgs), MsgWithinFence)
         IN  [i \in 1..Len(kept) |-> TrackPointOf(kept[i])]

\* C29: a cycle of the live loop that raises leaves launch_point and
\* top_point as they were before the cycle, while the tracked segment keeps
\* the fixes the cycle appended before it raised.
C29_FailedCycleCommitsNoPoint ==
    [][ ExceptionStep =>
          /\ launch_point' = launch_point
          /\ top_point' = top_point
          /\ segment_tracked' = segment_tracked \o AppendedFixes(messages') ]_allVars

\* the forecast of the first fix, above the ceiling, has raised: the launch
\* point and the ceiling it determined are not set, the fix is tracked
C29_Witness ==
    /\ cycle.outcome = "exception"
    /\ cycle.msg # None
    /\ launch_point = None
    /\ top_point = None
    /\ Len(segment_tracked) = 1
    /\ segment_tracked[1] = TrackPointOf(cycle.msg)
    /\ Last(segment_tracked).elevation > top_height

\* a cycle has raised on the second record of its poll after appending the
\* first
C29_WitnessPartial ==
    /\ cycle.outcome = "exception"
    /\ cycle.msg = None
    /\ Len(messages) = 2
    /\ Complete(messages[1])
    /\ Len(segment_tracked) >= 1
    /\ Last(segment_tracked) = TrackPointOf(messages[1])

\* ------------------------------------------------------------------- C30
\* the cycle of this iteration called doOneLivePrediction and the call took
\* the branch of the descent: it was given a top point or set one
RanDescending ==
    /\ cycle.msg # None
    /\ LET launch_point1 == launchPointOf(segment_tracked, cycle.launch_point0)
           top_point1 == topPointDetected(segment_tracked, launch_point1, cycle.top_point0)
       IN  topPointCeiling(segment_tracked, cycle.msg, top_point1, top_height) # None

\* C30 (as claimed): in every cycle that runs on descent the tracked segment
\* holds at least two points, its last two points have distinct timestamps,
\* and the initial velocity handed to the descent simulation is a finite
\* number.
C30_DescentVelocityFinite ==
    RanDescending =>
        /\ Len(segment_tracked) >= 2
        /\ Last(segment_tracked).time # segment_tracked[Len(segment_tracked) - 1].time
        /\ ~lastVerticalVelocityRaises(segment_tracked)
        /\ ~initialDescentVelocity(FALSE, segment_tracked).nan

====
